---- MODULE Spec2Model ----
\* A model of the MLB statistics Tool Host (src/mlb_mcp_server.py): one tool
\* invocation at a time, from the arrival of the request to the value or the
\* exception the handler hands back, with every call the handler issues to the
\* external statistics client (statsapi) recorded in order (Spec); of the
\* chat front-end (src/streamlit_app.py): the script runs the user's actions
\* start, with the session state and the Tool Host subprocesses they leave
\* behind (FrontSpec); of the tool schema normalization taken alone
\* (SchemaSpec); and of the list normalization taken alone (MultiSpec).
\*
\* Strings are sequences of tokens.  A token is either one of the punctuation
\* characters "," " " "[" "]" or an indivisible run of other characters (a
\* word such as "hitting"); strip, split and join act on tokens exactly as
\* Python's act on characters.  Scalars that the handlers only test for
\* truthiness and pass on (ids, seasons, dates) are TLA+ strings, with "None"
\* for None, "" for the empty string and "0" for the integer zero.
EXTENDS Integers, Sequences, FiniteSets, TLC

VARIABLES
    pc,             \* position of the handler: idle, called, an await point, done
    op,             \* registered name of the operation being invoked
    args,           \* the invocation's arguments, by parameter name
    calls,          \* external statsapi calls issued so far, in order
    locals,         \* the handler's local variables, by name
    warnings,       \* player_stat_data's warnings list
    formatted_map,  \* team_leaders' formatted_map, as a set of <<category, value>>
    outcome,        \* "none" | "return" | "raise"
    result,         \* the returned value
    err,            \* the raised exception
    \* The chat front-end (src/streamlit_app.py).
    session_state,  \* st.session_state: mcp_client, agent_mode, agent_obj, tools_native,
                    \* tools_schema, chat and the toggle's value (key connect_toggle)
    STRANDS_OK,     \* whether the import of the agent library succeeded
    procs,          \* the Tool Host subprocesses that are alive, by handle
    launched,       \* how many subprocesses have been launched so far
    at,             \* position of the script run: off, sidebar, guard, chat, waiting
    event,          \* what started the current run: load, toggle, stop, prompt, rerun
    sidebar_msg,    \* what the sidebar shows: nothing, success, warning or an error
    teardown,       \* what mcp_client.__exit__ did in the disconnect() of this run
    response,       \* what the planner model answered in this run's turn
    dispatched,     \* the tool invocations this run sent to the Tool Host
    escaped,        \* the exception that left the script uncaught, "" if none
    model_calls,    \* the invoke_model calls of this run's turn, in order
    caught,         \* the exception the chat handler caught in this run, "" if none
    \* Tool schema normalization on its own.
    descriptor,     \* the tool descriptor handed to _tool_to_schema
    schema,         \* what _tool_to_schema returned for it
    \* List normalization on its own.
    value,          \* the value handed to _to_multi_str (its val)
    multi_str,      \* _to_multi_str(val)
    multi_str_again,\* _to_multi_str(_to_multi_str(val))
    parsed          \* _parse_multi(_to_multi_str(val))

\* The Tool Host's variables.
host == <<pc, op, args, calls, locals, warnings, formatted_map, outcome, result, err>>

\* The chat front-end's variables.
front_end == <<session_state, STRANDS_OK, procs, launched, at, event, sidebar_msg,
               teardown, response, dispatched, escaped, model_calls, caught>>

\* The variables of the normalization taken alone.
lists == <<value, multi_str, multi_str_again, parsed>>

normalization == <<descriptor, schema, lists>>

vars == <<host, front_end, normalization>>

----------------------------------------------------------------------------
\* Bounds of the model.

\* Longest native list supplied for a list-valued parameter.
MaxItems == 2

----------------------------------------------------------------------------
\* Python values.

NONE == "None"

\* Optional[str | Iterable[str]]: None, a string (s) or a list of strings (l).
PyNone == [t |-> "none", s |-> <<>>, l |-> <<>>]
PyStr(x) == [t |-> "str", s |-> x, l |-> <<>>]
PyList(x) == [t |-> "list", s |-> <<>>, l |-> x]

\* bool(v) of a scalar.
Truthy(v) == v \notin {"None", "", "0", "False"}

\* bool(v) of an Optional[str] value.
TruthyStr(v) == v.t = "str" /\ v.s # <<>>

WS == {" "}
BRACKETS_WS == {"[", "]", " "}

RECURSIVE LStrip(_, _)
LStrip(s, cs) == IF s = <<>> \/ Head(s) \notin cs THEN s ELSE LStrip(Tail(s), cs)

RECURSIVE RStrip(_, _)
RStrip(s, cs) ==
    IF s = <<>> \/ s[Len(s)] \notin cs THEN s ELSE RStrip(SubSeq(s, 1, Len(s) - 1), cs)

\* str.strip(chars)
Strip(s, cs) == RStrip(LStrip(s, cs), cs)

\* str.split(","): "" splits to [""].
RECURSIVE Split(_)
Split(s) ==
    IF \A i \in DOMAIN s : s[i] # ","
    THEN <<s>>
    ELSE LET i == CHOOSE k \in DOMAIN s : s[k] = "," /\ \A j \in 1..(k - 1) : s[j] # ","
         IN  <<SubSeq(s, 1, i - 1)>> \o Split(SubSeq(s, i + 1, Len(s)))

\* ",".join(items)
RECURSIVE Join(_)
Join(items) ==
    IF items = <<>> THEN <<>>
    ELSE IF Len(items) = 1 THEN items[1]
    ELSE items[1] \o <<",">> \o Join(Tail(items))

\* [x.strip() for x in xs if x.strip()]
StripItems(xs) ==
    SelectSeq([i \in DOMAIN xs |-> Strip(xs[i], WS)], LAMBDA x : x # <<>>)

\* _to_multi_str with the list items taken as they come, untrimmed.
ToMultiStr_untrimmed(val) ==
    IF val.t = "none" THEN PyNone
    ELSE LET items == IF val.t = "str"
                      THEN StripItems(Split(Strip(val.s, BRACKETS_WS)))
                      ELSE SelectSeq(val.l, LAMBDA x : Strip(x, WS) # <<>>)
         IN  IF items = <<>> THEN PyNone
             ELSE PyStr(<<"[">> \o Join(items) \o <<"]">>)

\* _to_multi_str
ToMultiStr(val) ==
    IF val.t = "none" THEN PyNone
    ELSE LET items == IF val.t = "str"
                      THEN StripItems(Split(Strip(val.s, BRACKETS_WS)))
                      ELSE StripItems(val.l)
         IN  IF items = <<>> THEN PyNone
             ELSE PyStr(<<"[">> \o Join(items) \o <<"]">>)

\* _parse_multi
ParseMulti(val) ==
    IF ~TruthyStr(val) THEN <<>>
    ELSE StripItems(Split(Strip(val.s, BRACKETS_WS)))

Range(f) == {f[i] : i \in DOMAIN f}

----------------------------------------------------------------------------
\* Dictionaries (dict): functions from keys to values.

EmptyDict == [k \in {} |-> NONE]

\* d[k] = v
Put(d, k, v) == (k :> v) @@ d

\* "if cond: d[k] = v"
PutIf(cond, d, k, v) == IF cond THEN Put(d, k, v) ELSE d

----------------------------------------------------------------------------
\* Module constants of the server.

_VALID_PLAYER_POOLS == {<<"all">>, <<"qualified">>, <<"rookies">>}
_ALLOWED_GROUPS == {<<"hitting">>, <<"pitching">>, <<"fielding">>}
_FORMATTABLE_TYPES == {<<"career">>, <<"season">>}

\* _DATE_RE = ^\d{2}/\d{2}/\d{4}$ ; "dd" and "dddd" are runs of two and four digits.
_DATE_RE_match(d) == d = <<"dd", "/", "dd", "/", "dddd">>

\* str.upper() and str.lower(), token by token.
UpperTok(c) ==
    CASE c = "y" -> "Y" [] c = "n" -> "N" [] c = "b" -> "B" [] c = "x" -> "X" [] OTHER -> c
LowerTok(c) ==
    CASE c = "ALL" -> "all" [] c = "Qualified" -> "qualified" [] c = "ROOKIES" -> "rookies"
      [] OTHER -> c
Upper(s) == [i \in DOMAIN s |-> UpperTok(s[i])]
Lower(s) == [i \in DOMAIN s |-> LowerTok(s[i])]

\* _to_league_str
_to_league_str(leagueID) ==
    IF leagueID.t = "none" THEN PyNone
    ELSE IF leagueID.t = "str" THEN leagueID
    ELSE PyStr(Join([i \in DOMAIN leagueID.l |-> leagueID.l[i]]))

\* _ensure_season, given what datetime.now().year reads
_ensure_season(season, year) == IF season # NONE THEN season ELSE year

\* _to_list, for a value that is not None
_to_list(cats) == IF cats.t = "str" THEN <<cats.s>> ELSE cats.l

----------------------------------------------------------------------------
\* The registered operations (@mcp.tool(name=...)).

\* The operations the specification lists.
Catalogue ==
    {"date", "boxscore", "game_highlight_data", "game_pace_data", "scoring_play_data",
     "last_game", "next_game", "league_leader_data", "linescore", "lookup_player",
     "lookup_team", "player_stat_data", "roster", "game_schedule", "standings",
     "team_leaders"}

\* The registrations without the second last_game function.
OPS_without_lastest_season == Catalogue

OPS == {"date", "boxscore", "game_highlight_data", "game_pace_data",
        "scoring_play_data", "last_game", "lastest_season", "league_leader_data",
        "linescore", "lookup_player", "lookup_team", "next_game",
        "player_stat_data", "roster", "game_schedule", "standings", "team_leaders"}

----------------------------------------------------------------------------
\* Inputs.

\* Sequences over S of length at most n.
RECURSIVE SeqsUpTo(_, _)
SeqsUpTo(S, n) ==
    IF n = 0 THEN {<<>>}
    ELSE LET shorter == SeqsUpTo(S, n - 1)
         IN  shorter \cup {Append(q, x) : q \in {r \in shorter : Len(r) = n - 1}, x \in S}

\* Items a caller may put in a native list: words, padded or not, and blanks.
GroupItemInputs == {<<"hitting">>, <<" ", "pitching">>, <<"catching", " ">>, <<" ">>}
GroupListInputs == SeqsUpTo(GroupItemInputs, MaxItems)

\* The comma-delimited string forms of a list: its items joined by commas,
\* optionally inside brackets and optionally padded with whitespace.
StringForms(items) ==
    {pre \o Join(items) \o post :
        pre \in {<<>>, <<"[">>, <<" ", "[">>},
        post \in {<<>>, <<"]">>, <<"]", " ">>}}

GroupStrInputs == UNION {StringForms(l) : l \in GroupListInputs}
GroupInputs ==
    {PyNone} \cup {PyList(l) : l \in GroupListInputs} \cup {PyStr(s) : s \in GroupStrInputs}

TypeInputs ==
    {PyNone, PyStr(<<>>), PyList(<<>>),
     PyStr(<<"season">>), PyStr(<<"career">>), PyStr(<<"yearByYear">>),
     PyStr(<<"career", ",", "season">>), PyList(<<<<"career">>, <<" ", "season">>>>),
     PyList(<<<<"season">>, <<"yearByYear">>>>), PyStr(<<"[", "career", ",", "gameLog", "]">>)}

ActiveStatusInputs ==
    {PyNone} \cup {PyStr(s) : s \in {<<"Y">>, <<"y">>, <<"N">>, <<"b">>, <<"X">>, <<"x">>,
                                     <<>>, <<"Y", " ">>, <<"Y", "N">>}}

PlayerPoolInputs ==
    {PyNone} \cup {PyStr(s) : s \in {<<"all">>, <<"ALL">>, <<" ", "rookies">>,
                                     <<"Qualified", " ">>, <<"veterans">>, <<>>, <<" ">>,
                                     <<"all", "rookies">>}}

CategoryInputs ==
    {PyNone, PyStr(<<"walks">>), PyStr(<<"walks", ",", "hits">>)}
    \cup {PyList(l) : l \in SeqsUpTo({<<"walks">>, <<"hits">>}, MaxItems)}

LeagueInputs == {PyNone, PyStr(<<"103", ",", "104">>), PyList(<<<<"103">>, <<"104">>>>)}

DateInputs == {PyNone, PyStr(<<>>), PyStr(<<"dd", "/", "dd", "/", "dddd">>),
               PyStr(<<"dddd", "-", "dd", "-", "dd">>)}

\* What datetime.now().year may read.
CurrentYears == {"2025", "2026"}

\* The arguments an invocation of operation o may carry.  Parameters the
\* signature requires (roster.team_id, team_leaders.teamID and
\* leaderCategories) are always present: the framework binds them before the
\* handler runs.  Every other parameter takes its default when omitted.
ArgsOf(o) ==
    CASE o = "date" -> {EmptyDict}
      [] o = "boxscore" ->
            [gamePk : {NONE, "565997"}, timeCode : {NONE, "20190424_000000"}]
      [] o \in {"game_highlight_data", "scoring_play_data"} -> [gameID : {NONE, "565997"}]
      [] o = "game_pace_data" -> [season : {NONE, "2023"}, sportID : {"1"}]
      [] o \in {"last_game", "next_game"} -> [teamID : {NONE, "143"}]
      [] o = "lastest_season" -> [seasonID : {NONE, "2024"}]
      [] o = "league_leader_data" ->
            [leaderCategories : {NONE, "", "homeRuns"}, season : {NONE, "2024"},
             playerPool : PlayerPoolInputs]
      [] o = "linescore" -> [gameID : {NONE, "0", "565997"}, timecode : {NONE}]
      [] o = "lookup_player" -> [player_name : {NONE, "harper"}]
      [] o = "lookup_team" ->
            [lookup_value : {NONE, "", "ny"}, activeStatus : ActiveStatusInputs,
             season : {NONE}, sportIds : {"1"}]
      [] o = "player_stat_data" ->
            [personID : {NONE, "0", "660271"}, group : GroupInputs, type : TypeInputs,
             season : {NONE, "2024"}]
      [] o = "roster" ->
            [team_id : {"119"}, rosterType : {NONE, "active"}, season : {NONE, "2024"},
             date : {NONE}]
      [] o = "game_schedule" ->
            [date : {NONE, "06/01/2025"}, team_id : {NONE, "143"}, season : {NONE, "2023"}]
      [] o = "standings" ->
            [leagueID : LeagueInputs, season : {NONE, "2025"}, date : DateInputs,
             includeJson : BOOLEAN]
      [] o = "team_leaders" ->
            [teamID : {"143"}, leaderCategories : CategoryInputs, season : {NONE, "2024"},
             includeJson : BOOLEAN]

----------------------------------------------------------------------------
\* The external statistics client and what a handler hands back.

\* What one statsapi call may do: return data, return nothing, or raise.
ExtOutcomes == {"data", "empty", "fail"}

Call(fn, params, status, via) == [fn |-> fn, params |-> params, status |-> status, via |-> via]

\* The value a finished call returned.
Ret(c) == [of |-> c.fn, v |-> c.status]

NoResult == [t |-> "none", d |-> EmptyDict]
NoErr == [type |-> "", ctx |-> "", cause |-> ""]

\* An exception raised as is.
Plain(type) == [type |-> type, ctx |-> "", cause |-> ""]

\* A bare "raise" in place of the wrapping: the exception goes up as it is.
Wrapped_bare(ctx, e) == e

\* raise Exception(f"<ctx>: {e!s}") from e
Wrapped(ctx, e) == [type |-> "Exception", ctx |-> ctx, cause |-> e.type]

\* The exception a failing statsapi call raises.
StatsApiError == Plain("StatsApiError")

Return(d) ==
    /\ outcome' = "return" /\ result' = [t |-> "dict", d |-> d] /\ err' = NoErr
    /\ pc' = "done"

Raise(e) ==
    /\ outcome' = "raise" /\ result' = NoResult /\ err' = e
    /\ pc' = "done"

\* The host with no invocation in progress.
HostIdle ==
    /\ pc = "idle" /\ op = "" /\ args = EmptyDict /\ calls = <<>>
    /\ locals = EmptyDict /\ warnings = <<>> /\ formatted_map = EmptyDict
    /\ outcome = "none" /\ result = NoResult /\ err = NoErr

\* st.session_state as lines 208-219 leave it on the first run; the toggle
\* is created with value=False.
session_state_initial ==
    [mcp_client |-> 0, agent_mode |-> NONE, agent_obj |-> NONE,
     tools_native |-> <<>>, tools_schema |-> <<>>, chat |-> <<>>,
     connect_toggle |-> FALSE]

NoMessage == [kind |-> "", e |-> ""]
NoResponse == [form |-> "none"]
NoDescriptor == [shape |-> "none"]
NoSchema == [computed |-> FALSE, v |-> NONE]

\* No page of the chat front-end is open.
FrontEndOff ==
    /\ session_state = session_state_initial /\ STRANDS_OK = FALSE
    /\ procs = {} /\ launched = 0 /\ at = "off" /\ event = ""
    /\ sidebar_msg = NoMessage /\ teardown = "none" /\ response = NoResponse
    /\ dispatched = <<>> /\ escaped = ""
    /\ model_calls = <<>> /\ caught = ""

\* A function of the list normalization that has not been called.
NotComputed == [computed |-> FALSE, v |-> NONE]

\* Neither _to_multi_str nor _parse_multi is being called on its own.
ListsOff ==
    /\ value = PyNone /\ multi_str = NotComputed
    /\ multi_str_again = NotComputed /\ parsed = NotComputed

\* No descriptor is being normalized.
NormalizationOff == descriptor = NoDescriptor /\ schema = NoSchema /\ ListsOff

\* The Tool Host serving whatever client calls it.
Init == HostIdle /\ FrontEndOff /\ NormalizationOff

\* A tools/call request arrives at the idle host.
Invoke ==
    /\ pc = "idle"
    /\ \E o \in OPS : \E a \in ArgsOf(o) : op' = o /\ args' = a
    /\ pc' = "called"
    /\ UNCHANGED <<calls, locals, warnings, formatted_map, outcome, result, err>>
    /\ UNCHANGED <<front_end, normalization>>

\* The response has been sent: the invocation's frame is gone and the host
\* waits for the next request.
Respond ==
    /\ pc = "done"
    /\ pc' = "idle" /\ op' = "" /\ args' = EmptyDict /\ calls' = <<>>
    /\ locals' = EmptyDict /\ warnings' = <<>> /\ formatted_map' = EmptyDict
    /\ outcome' = "none" /\ result' = NoResult /\ err' = NoErr
    /\ UNCHANGED <<front_end, normalization>>

\* A call handed to the executor's thread finishes, whatever the handler is doing.
FutureCompletes ==
    /\ \E i \in DOMAIN calls : \E r \in ExtOutcomes :
          /\ calls[i].status = "pending"
          /\ calls' = [calls EXCEPT ![i].status = r]
    /\ UNCHANGED <<pc, op, args, locals, warnings, formatted_map, outcome, result, err>>
    /\ UNCHANGED <<front_end, normalization>>

\* A blocking call made on the event loop: issued and finished in one step.
Sync(r, fn, params) == Append(calls, Call(fn, params, r, "sync"))

\* date
date ==
    /\ pc = "called" /\ op = "date"
    /\ outcome' = "return" /\ result' = [t |-> "str", d |-> EmptyDict] /\ err' = NoErr
    /\ pc' = "done"
    /\ UNCHANGED <<op, args, calls, locals, warnings, formatted_map>>
    /\ UNCHANGED <<front_end, normalization>>

\* boxscore: the params dict of lines 183-195.
boxscore_params(a) ==
    LET p0 == PutIf(a.gamePk # NONE, EmptyDict, "gamePk", a.gamePk)
        p1 == Put(p0, "battingBox", "False")
        p2 == Put(p1, "fieldingInfo", "False")
        p3 == Put(p2, "pitchingBox", "False")
        p4 == Put(p3, "gameInfo", "False")
    IN  PutIf(a.timeCode # NONE, p4, "timecode", a.timeCode)

boxscore_data ==
    /\ pc = "called" /\ op = "boxscore"
    /\ \E r \in ExtOutcomes :
          /\ calls' = Sync(r, "statsapi.boxscore", boxscore_params(args))
          /\ IF r = "fail"
             THEN Raise(Wrapped("Error retrieving game details", StatsApiError))
             ELSE Return("game" :> Ret(calls'[1]))
    /\ UNCHANGED <<op, args, locals, warnings, formatted_map>>
    /\ UNCHANGED <<front_end, normalization>>

\* What the handlers that catch every exception hand back: {"error": str(e)}.
ErrorDict == "error" :> "str(e)"

\* The body shared by game_highlight_data, scoring_play_data, last_game,
\* lastest_season and next_game: one call with the argument as given, the
\* result under one key, any exception turned into a returned mapping.
PassThrough(fn, arg, key) ==
    \E r \in ExtOutcomes :
        /\ calls' = Sync(r, fn, "arg0" :> arg)
        /\ IF r = "fail" THEN Return(ErrorDict) ELSE Return(key :> Ret(calls'[1]))

game_highlight_data ==
    /\ pc = "called" /\ op = "game_highlight_data"
    /\ PassThrough("statsapi.game_highlight_data", args.gameID, "game highlights")
    /\ UNCHANGED <<op, args, locals, warnings, formatted_map>>
    /\ UNCHANGED <<front_end, normalization>>

game_pace_data ==
    /\ pc = "called" /\ op = "game_pace_data"
    /\ LET p0 == PutIf(Truthy(args.season), EmptyDict, "season", args.season)
           params == PutIf(Truthy(args.season), p0, "sportId", args.sportID)
       IN  \E r \in ExtOutcomes :
              /\ calls' = Sync(r, "statsapi.game_pace_data", params)
              /\ IF r = "fail"
                 THEN Raise(Wrapped("Error retrieving schedule", StatsApiError))
                 ELSE Return("game_pace_data" :> Ret(calls'[1]))
    /\ UNCHANGED <<op, args, locals, warnings, formatted_map>>
    /\ UNCHANGED <<front_end, normalization>>

scoring_play_data ==
    /\ pc = "called" /\ op = "scoring_play_data"
    /\ PassThrough("statsapi.game_scoring_plays", args.gameID, "scoring plays")
    /\ UNCHANGED <<op, args, locals, warnings, formatted_map>>
    /\ UNCHANGED <<front_end, normalization>>

last_game ==
    /\ pc = "called" /\ op = "last_game"
    /\ PassThrough("statsapi.last_game", args.teamID, "last_game")
    /\ UNCHANGED <<op, args, locals, warnings, formatted_map>>
    /\ UNCHANGED <<front_end, normalization>>

\* The second function named last_game, registered as "lastest_season".
lastest_season ==
    /\ pc = "called" /\ op = "lastest_season"
    /\ PassThrough("statsapi.last_game", args.seasonID, "last_game")
    /\ UNCHANGED <<op, args, locals, warnings, formatted_map>>
    /\ UNCHANGED <<front_end, normalization>>

next_game ==
    /\ pc = "called" /\ op = "next_game"
    /\ PassThrough("statsapi.next_game", args.teamID, "next_game")
    /\ UNCHANGED <<op, args, locals, warnings, formatted_map>>
    /\ UNCHANGED <<front_end, normalization>>

\* league_leader_data: playerPool = str(playerPool).strip().lower()
league_leader_pool(a) == Lower(Strip(a.playerPool.s, WS))

\* league_leader_data: the checks of lines 383-393 pass.
league_leader_valid(a) ==
    /\ Truthy(a.leaderCategories)
    /\ a.playerPool.t # "none" => league_leader_pool(a) \in _VALID_PLAYER_POOLS

\* league_leader_data: call_params, query_params without its None entries.
league_leader_call_params(a) ==
    LET p0 == Put(EmptyDict, "leaderCategories", a.leaderCategories)
        p1 == PutIf(Truthy(a.season), p0, "season", a.season)
        p2 == Put(p1, "limit", "10")
        p3 == PutIf(a.playerPool.t # "none" /\ league_leader_pool(a) # <<>>,
                    p2, "playerPool", league_leader_pool(a))
    IN  Put(p3, "sportId", "1")

league_leader_data ==
    /\ pc = "called" /\ op = "league_leader_data"
    /\ IF ~league_leader_valid(args)
       THEN /\ Raise(Plain("ValueError"))
            /\ calls' = calls
       ELSE \E r \in ExtOutcomes :
              /\ calls' = Sync(r, "statsapi.league_leaders", league_leader_call_params(args))
              /\ IF r = "fail"
                 THEN Raise(StatsApiError)
                 ELSE Return(("query" :> league_leader_call_params(args))
                             @@ ("leaders" :> Ret(calls'[1])))
    /\ UNCHANGED <<op, args, locals, warnings, formatted_map>>
    /\ UNCHANGED <<front_end, normalization>>

\* linescore: two blocking calls, one after the other, in one step of the
\* event loop.
linescore ==
    /\ pc = "called" /\ op = "linescore"
    /\ IF ~Truthy(args.gameID)
       THEN /\ Raise(Wrapped("Error retrieving linescore for gameID", Plain("ValueError")))
            /\ calls' = calls
       ELSE \E r1 \in ExtOutcomes :
              LET c1 == Call("statsapi.linescore",
                             ("arg0" :> args.gameID) @@ ("timecode" :> args.timecode),
                             r1, "sync")
              IN  IF r1 = "fail"
                  THEN /\ calls' = <<c1>>
                       /\ Raise(Wrapped("Error retrieving linescore for gameID", StatsApiError))
                  ELSE \E r2 \in ExtOutcomes :
                         LET c2 == Call("statsapi.get:game", "gamePk" :> args.gameID,
                                        r2, "sync")
                         IN  /\ calls' = <<c1, c2>>
                             /\ IF r2 = "fail"
                                THEN Raise(Wrapped("Error retrieving linescore for gameID",
                                                   StatsApiError))
                                ELSE Return(("query" :> [gamePk |-> args.gameID,
                                                         timecode |-> args.timecode])
                                            @@ ("formatted" :> Ret(c1))
                                            @@ ("json" :> Ret(c2)))
    /\ UNCHANGED <<op, args, locals, warnings, formatted_map>>
    /\ UNCHANGED <<front_end, normalization>>

\* lookup_player: an empty result raises inside the try and is wrapped like
\* any other exception.
lookup_player ==
    /\ pc = "called" /\ op = "lookup_player"
    /\ \E r \in ExtOutcomes :
          /\ calls' = Sync(r, "statsapi.lookup_player", "arg0" :> args.player_name)
          /\ CASE r = "data" -> Return("people" :> Ret(calls'[1]))
               [] r = "empty" -> Raise(Wrapped("Error looking up player", Plain("Exception")))
               [] r = "fail" -> Raise(Wrapped("Error looking up player", StatsApiError))
    /\ UNCHANGED <<op, args, locals, warnings, formatted_map>>
    /\ UNCHANGED <<front_end, normalization>>

\* lookup_team without the activeStatus whitelist.
lookup_team_error_unchecked(a) ==
    IF ~Truthy(a.lookup_value) THEN "ValueError"
    ELSE IF a.activeStatus.t = "none" THEN "AttributeError"
    ELSE ""

\* lookup_team: activeStatus.upper() raises AttributeError on None.
lookup_team_error(a) ==
    IF ~Truthy(a.lookup_value) THEN "ValueError"
    ELSE IF a.activeStatus.t = "none" THEN "AttributeError"
    ELSE IF Upper(a.activeStatus.s) \notin {<<"Y">>, <<"N">>, <<"B">>} THEN "ValueError"
    ELSE ""

lookup_team ==
    /\ pc = "called" /\ op = "lookup_team"
    /\ IF lookup_team_error(args) # ""
       THEN /\ Raise(Wrapped("Error during team lookup for", Plain(lookup_team_error(args))))
            /\ calls' = calls
       ELSE LET activeStatus == Upper(args.activeStatus.s)
                query_params == [lookup_value |-> args.lookup_value,
                                 activeStatus |-> activeStatus,
                                 season |-> args.season, sportIds |-> args.sportIds]
            IN  \E r \in ExtOutcomes :
                  /\ calls' = Sync(r, "statsapi.lookup_team",
                                   ("arg0" :> args.lookup_value)
                                   @@ ("activeStatus" :> activeStatus)
                                   @@ ("season" :> args.season)
                                   @@ ("sportIds" :> args.sportIds))
                  /\ IF r = "fail"
                     THEN Raise(Wrapped("Error during team lookup for", StatsApiError))
                     ELSE Return(("query" :> query_params)
                                 @@ ("count" :> IF r = "empty" THEN "0" ELSE "n")
                                 @@ ("teams" :> Ret(calls'[1])))
    /\ UNCHANGED <<op, args, locals, warnings, formatted_map>>
    /\ UNCHANGED <<front_end, normalization>>

\* roster
roster_params(a) ==
    LET p0 == Put(EmptyDict, "teamId", a.team_id)
        p1 == PutIf(Truthy(a.rosterType), p0, "rosterType", a.rosterType)
        p2 == PutIf(a.season # NONE, p1, "season", a.season)
    IN  PutIf(Truthy(a.date), p2, "date", a.date)

get_team_roster ==
    /\ pc = "called" /\ op = "roster"
    /\ \E r \in ExtOutcomes :
          /\ calls' = Sync(r, "statsapi.get:team_roster", roster_params(args))
          /\ IF r = "fail"
             THEN Raise(Wrapped("[roster] Error retrieving team roster for team ID",
                                StatsApiError))
             ELSE Return(("query" :> roster_params(args))
                         @@ ("roster" :> Ret(calls'[1]))
                         @@ ("raw" :> Ret(calls'[1])))
    /\ UNCHANGED <<op, args, locals, warnings, formatted_map>>
    /\ UNCHANGED <<front_end, normalization>>

\* game_schedule
game_schedule_params(a) ==
    LET p0 == PutIf(Truthy(a.date), EmptyDict, "date", a.date)
        p1 == PutIf(Truthy(a.team_id), p0, "team", a.team_id)
        p2 == PutIf(Truthy(a.season), p1, "season", a.season)
        p3 == Put(p2, "sportId", "1")
    IN  Put(p3, "include_series_status", "True")

game_schedule ==
    /\ pc = "called" /\ op = "game_schedule"
    /\ \E r \in ExtOutcomes :
          /\ calls' = Sync(r, "statsapi.schedule", game_schedule_params(args))
          /\ IF r = "fail"
             THEN Raise(Wrapped("Error retrieving schedule", StatsApiError))
             ELSE Return("games" :> Ret(calls'[1]))
    /\ UNCHANGED <<op, args, locals, warnings, formatted_map>>
    /\ UNCHANGED <<front_end, normalization>>

----------------------------------------------------------------------------
\* player_stat_data

\* None where a call's value could stand.
NoneRet == [of |-> "", v |-> "None"]

\* A call handed to loop.run_in_executor: issued, not yet finished.
Submitted(fn, params) == Call(fn, params, "pending", "executor")

\* An await that goes on without the future being done.
FutureDone_unawaited(c) == TRUE

\* "await future" resumes the handler once the future is done.
FutureDone(c) == c.status # "pending"

\* An await whose exception is swallowed.
AwaitRaises_swallowed(c) == FALSE

\* "await future" on a finished call raises the call's exception if it failed.
AwaitRaises(c) == c.status = "fail"

SEASON_IGNORED == "season was provided but type does not include season"
FORMATTED_UNAVAILABLE == "Formatted output not available for requested type"

psd_group_multi(a) == ToMultiStr(a.group)
psd_type_multi(a) == ToMultiStr(a.type)
psd_groups_list(a) == ParseMulti(psd_group_multi(a))
psd_types_list(a) == ParseMulti(psd_type_multi(a))

\* The checks of lines 621-633 pass.
psd_valid(a) ==
    /\ Truthy(a.personID)
    /\ psd_groups_list(a) # <<>> => Range(psd_groups_list(a)) \subseteq _ALLOWED_GROUPS

\* season and "season" not in types_list
psd_season_ignored(a) == Truthy(a.season) /\ <<"season">> \notin Range(psd_types_list(a))

\* season_for_calls with the season kept whatever the types.
psd_season_for_calls_as_given(a) == a.season

psd_season_for_calls(a) == IF psd_season_ignored(a) THEN NONE ELSE a.season

psd_raw_params(a) ==
    LET p0 == Put(EmptyDict, "personId", a.personID)
        p1 == PutIf(TruthyStr(psd_group_multi(a)), p0, "group", psd_group_multi(a))
        p2 == PutIf(TruthyStr(psd_type_multi(a)), p1, "type", psd_type_multi(a))
    IN  PutIf(Truthy(psd_season_for_calls(a)), p2, "season", psd_season_for_calls(a))

\* can_format as line 665 alone leaves it, without the default for an
\* omitted type.
psd_can_format_no_default(a) ==
    /\ psd_types_list(a) # <<>>
    /\ Range(psd_types_list(a)) \subseteq _FORMATTABLE_TYPES

\* can_format after lines 665-671
psd_can_format(a) ==
    IF psd_types_list(a) = <<>> THEN TRUE
    ELSE Range(psd_types_list(a)) \subseteq _FORMATTABLE_TYPES

\* type_multi_for_fmt without the "season" default.
psd_type_multi_for_fmt_as_given(a) == psd_type_multi(a)

psd_type_multi_for_fmt(a) ==
    IF psd_types_list(a) = <<>> THEN PyStr(<<"season">>) ELSE psd_type_multi(a)

psd_fmt_params(a) ==
    LET p0 == Put(EmptyDict, "personId", a.personID)
        p1 == PutIf(TruthyStr(psd_group_multi(a)), p0, "group", psd_group_multi(a))
        p2 == PutIf(TruthyStr(psd_type_multi_for_fmt(a)), p1, "type", psd_type_multi_for_fmt(a))
    IN  PutIf(Truthy(psd_season_for_calls(a)), p2, "season", psd_season_for_calls(a))

\* The warnings list once both futures are set up.
psd_warnings(a) ==
    (IF psd_season_ignored(a) THEN <<SEASON_IGNORED>> ELSE <<>>)
    \o (IF ~psd_can_format(a)
           /\ psd_types_list(a) # <<>>
           /\ ~(Range(psd_types_list(a)) \subseteq _FORMATTABLE_TYPES)
        THEN <<FORMATTED_UNAVAILABLE>> ELSE <<>>)

\* The mapping without the echoed query.
psd_result_no_query(a, w, formatted_result, raw_result) ==
    ("warnings" :> w)
    @@ ("formatted" :> formatted_result)
    @@ ("json" :> raw_result)

\* The mapping of lines 697-707.
psd_result(a, w, formatted_result, raw_result) ==
    ("query" :> [personId |-> a.personID, group |-> psd_group_multi(a),
                 type |-> psd_type_multi(a), season |-> a.season])
    @@ ("warnings" :> w)
    @@ ("formatted" :> formatted_result)
    @@ ("json" :> raw_result)

\* Up to the first await: validation, then both futures.
player_stat_data ==
    /\ pc = "called" /\ op = "player_stat_data"
    /\ IF ~psd_valid(args)
       THEN /\ Raise(Wrapped("player_stat_data failed", Plain("ValueError")))
            /\ UNCHANGED <<calls, locals, warnings>>
       ELSE /\ calls' = <<Submitted("statsapi.player_stat_data", psd_raw_params(args))>>
                        \o (IF psd_can_format(args)
                            THEN <<Submitted("statsapi.player_stats", psd_fmt_params(args))>>
                            ELSE <<>>)
            /\ locals' = [raw_future |-> 1,
                          fmt_future |-> IF psd_can_format(args) THEN 2 ELSE 0]
            /\ warnings' = psd_warnings(args)
            /\ pc' = "await_raw"
            /\ UNCHANGED <<outcome, result, err>>
    /\ UNCHANGED <<op, args, formatted_map>>
    /\ UNCHANGED <<front_end, normalization>>

\* raw_result = await raw_future; with no fmt_future the handler returns at once.
player_stat_data_await_raw ==
    /\ pc = "await_raw" /\ op = "player_stat_data"
    /\ FutureDone(calls[locals.raw_future])
    /\ IF AwaitRaises(calls[locals.raw_future])
       THEN Raise(Wrapped("player_stat_data failed", StatsApiError))
       ELSE IF locals.fmt_future = 0
            THEN Return(psd_result(args, warnings, NoneRet, Ret(calls[locals.raw_future])))
            ELSE pc' = "await_fmt" /\ UNCHANGED <<outcome, result, err>>
    /\ UNCHANGED <<op, args, calls, locals, warnings, formatted_map>>
    /\ UNCHANGED <<front_end, normalization>>

\* formatted_result = await fmt_future
player_stat_data_await_fmt ==
    /\ pc = "await_fmt" /\ op = "player_stat_data"
    /\ FutureDone(calls[locals.fmt_future])
    /\ IF AwaitRaises(calls[locals.fmt_future])
       THEN Raise(Wrapped("player_stat_data failed", StatsApiError))
       ELSE Return(psd_result(args, warnings, Ret(calls[locals.fmt_future]),
                              Ret(calls[locals.raw_future])))
    /\ UNCHANGED <<op, args, calls, locals, warnings, formatted_map>>
    /\ UNCHANGED <<front_end, normalization>>

----------------------------------------------------------------------------
\* standings

\* date is not None and not _DATE_RE.match(date)
standings_valid(a) == a.date.t # "none" => _DATE_RE_match(a.date.s)

standings_fmt_params(a) ==
    LET league_str == _to_league_str(a.leagueID)
        p0 == PutIf(TruthyStr(league_str), EmptyDict, "leagueId", league_str)
        p1 == Put(p0, "division", "all")
        p2 == Put(p1, "include_wildcard", "True")
        p3 == PutIf(Truthy(a.season), p2, "season", a.season)
    IN  PutIf(TruthyStr(a.date), p3, "date", a.date)

standings_data_params(a) ==
    LET league_str == _to_league_str(a.leagueID)
        p0 == PutIf(TruthyStr(league_str), EmptyDict, "leagueId", league_str)
        p1 == PutIf(Truthy(a.season), p0, "season", a.season)
    IN  PutIf(TruthyStr(a.date), p1, "date", a.date)

\* The mapping of lines 926-938.
standings_result(a, formatted, raw_json) ==
    ("query" :> [leagueId |-> _to_league_str(a.leagueID), division |-> "all",
                 include_wildcard |-> "True", season |-> a.season,
                 standingsTypes |-> NONE, date |-> a.date,
                 includeJson |-> a.includeJson])
    @@ ("formatted" :> formatted)
    @@ ("json" :> raw_json)

\* Up to the first await.
standings ==
    /\ pc = "called" /\ op = "standings"
    /\ IF ~standings_valid(args)
       THEN /\ Raise(Wrapped("[standings] Failed", Plain("ValueError")))
            /\ UNCHANGED <<calls, locals>>
       ELSE /\ calls' = <<Submitted("statsapi.standings", standings_fmt_params(args))>>
                        \o (IF args.includeJson
                            THEN <<Submitted("statsapi.standings_data",
                                             standings_data_params(args))>>
                            ELSE <<>>)
            /\ locals' = [formatted_future |-> 1,
                          data_future |-> IF args.includeJson THEN 2 ELSE 0]
            /\ pc' = "await_formatted"
            /\ UNCHANGED <<outcome, result, err>>
    /\ UNCHANGED <<op, args, warnings, formatted_map>>
    /\ UNCHANGED <<front_end, normalization>>

\* formatted = await formatted_future
standings_await_formatted ==
    /\ pc = "await_formatted" /\ op = "standings"
    /\ FutureDone(calls[locals.formatted_future])
    /\ IF AwaitRaises(calls[locals.formatted_future])
       THEN Raise(Wrapped("[standings] Failed", StatsApiError))
       ELSE IF locals.data_future = 0
            THEN Return(standings_result(args, Ret(calls[locals.formatted_future]), NoneRet))
            ELSE pc' = "await_data" /\ UNCHANGED <<outcome, result, err>>
    /\ UNCHANGED <<op, args, calls, locals, warnings, formatted_map>>
    /\ UNCHANGED <<front_end, normalization>>

\* raw_json = await data_future
standings_await_data ==
    /\ pc = "await_data" /\ op = "standings"
    /\ FutureDone(calls[locals.data_future])
    /\ IF AwaitRaises(calls[locals.data_future])
       THEN Raise(Wrapped("[standings] Failed", StatsApiError))
       ELSE Return(standings_result(args, Ret(calls[locals.formatted_future]),
                                    Ret(calls[locals.data_future])))
    /\ UNCHANGED <<op, args, calls, locals, warnings, formatted_map>>
    /\ UNCHANGED <<front_end, normalization>>

----------------------------------------------------------------------------
\* team_leaders

\* _one(cat) with the season as the caller gave it.
team_leaders_one_season_as_given(a, season_val, cat) ==
    Submitted("statsapi.team_leaders",
              [teamId |-> a.teamID, leaderCategories |-> cat, season |-> a.season,
               leaderGameTypes |-> "R", limit |-> "5"])

\* _one(cat): one statsapi.team_leaders call per category.
team_leaders_one(a, season_val, cat) ==
    Submitted("statsapi.team_leaders",
              [teamId |-> a.teamID, leaderCategories |-> cat, season |-> season_val,
               leaderGameTypes |-> "R", limit |-> "5"])

team_leaders_json(a, season_val, categories) ==
    Submitted("statsapi.team_leader_data",
              [teamId |-> a.teamID, leaderCategories |-> categories, season |-> season_val,
               leaderGameTypes |-> "R", limit |-> "5"])

\* formatted_out as the mapping whatever the number of categories.
team_leaders_formatted_out_map(categories, fm) ==
    [scalar |-> FALSE, v |-> NoneRet, m |-> fm]

\* formatted_out: the one value when there is one category, else the mapping.
team_leaders_formatted_out(categories, fm) ==
    IF Len(categories) = 1
    THEN [scalar |-> TRUE, v |-> fm[categories[1]], m |-> EmptyDict]
    ELSE [scalar |-> FALSE, v |-> NoneRet, m |-> fm]

\* The mapping of lines 1008-1018.
team_leaders_result(a, l, fm, raw_json) ==
    ("query" :> [teamID |-> a.teamID, season |-> l.season_val,
                 leaderCategories |-> l.categories, leaderGameTypes |-> "R",
                 limit |-> "5"])
    @@ ("formatted" :> team_leaders_formatted_out(l.categories, fm))
    @@ ("json" :> raw_json)

\* Up to the first await: the season, the category list, the first fetch.
team_leaders ==
    /\ pc = "called" /\ op = "team_leaders"
    /\ IF args.leaderCategories.t = "none"
       THEN /\ Raise(Wrapped("[team_leaders] Failed for team", Plain("ValueError")))
            /\ UNCHANGED <<calls, locals>>
       ELSE \E year \in CurrentYears :
              LET l == [season_val |-> _ensure_season(args.season, year),
                        categories |-> _to_list(args.leaderCategories),
                        i |-> 1]
              IN  /\ locals' = l
                  /\ IF l.categories # <<>>
                     THEN /\ calls' = <<team_leaders_one(args, l.season_val, l.categories[1])>>
                          /\ pc' = "await_one"
                          /\ UNCHANGED <<outcome, result, err>>
                     ELSE IF args.includeJson
                     THEN /\ calls' = <<team_leaders_json(args, l.season_val, l.categories)>>
                          /\ pc' = "await_json"
                          /\ UNCHANGED <<outcome, result, err>>
                     ELSE /\ calls' = calls
                          /\ Return(team_leaders_result(args, l, EmptyDict, NoneRet))
    /\ UNCHANGED <<op, args, warnings, formatted_map>>
    /\ UNCHANGED <<front_end, normalization>>

\* formatted_map[cat] = await _one(cat), then the next fetch or the way out.
team_leaders_await_one ==
    /\ pc = "await_one" /\ op = "team_leaders"
    /\ FutureDone(calls[Len(calls)])
    /\ IF AwaitRaises(calls[Len(calls)])
       THEN /\ Raise(Wrapped("[team_leaders] Failed for team", StatsApiError))
            /\ UNCHANGED <<calls, locals, formatted_map>>
       ELSE LET fm == Put(formatted_map, locals.categories[locals.i], Ret(calls[Len(calls)]))
            IN  /\ formatted_map' = fm
                /\ IF locals.i < Len(locals.categories)
                   THEN /\ locals' = [locals EXCEPT !.i = @ + 1]
                        /\ calls' = Append(calls, team_leaders_one(args, locals.season_val,
                                                     locals.categories[locals.i + 1]))
                        /\ UNCHANGED <<pc, outcome, result, err>>
                   ELSE IF args.includeJson
                   THEN /\ calls' = Append(calls, team_leaders_json(args, locals.season_val,
                                                                    locals.categories))
                        /\ pc' = "await_json"
                        /\ UNCHANGED <<locals, outcome, result, err>>
                   ELSE /\ Return(team_leaders_result(args, locals, fm, NoneRet))
                        /\ UNCHANGED <<calls, locals>>
    /\ UNCHANGED <<op, args, warnings>>
    /\ UNCHANGED <<front_end, normalization>>

\* raw_json = await loop.run_in_executor(... team_leader_data ...)
team_leaders_await_json ==
    /\ pc = "await_json" /\ op = "team_leaders"
    /\ FutureDone(calls[Len(calls)])
    /\ IF AwaitRaises(calls[Len(calls)])
       THEN Raise(Wrapped("[team_leaders] Failed for team", StatsApiError))
       ELSE Return(team_leaders_result(args, locals, formatted_map, Ret(calls[Len(calls)])))
    /\ UNCHANGED <<op, args, calls, locals, warnings, formatted_map>>
    /\ UNCHANGED <<front_end, normalization>>

----------------------------------------------------------------------------
Next ==
    \/ Invoke \/ Respond \/ FutureCompletes
    \/ date \/ boxscore_data \/ game_highlight_data \/ game_pace_data
    \/ scoring_play_data \/ last_game \/ lastest_season \/ next_game
    \/ league_leader_data \/ linescore \/ lookup_player \/ lookup_team
    \/ get_team_roster \/ game_schedule
    \/ player_stat_data \/ player_stat_data_await_raw \/ player_stat_data_await_fmt
    \/ standings \/ standings_await_formatted \/ standings_await_data
    \/ team_leaders \/ team_leaders_await_one \/ team_leaders_await_json

Spec == Init /\ [][Next]_vars

----------------------------------------------------------------------------
\* Properties.

\* The handler of the current invocation has run at least its first step.
Acted == pc \notin {"idle", "called"}

\* The trimmed, non-empty items of a list-valued argument, whichever form
\* it was supplied in.
ItemsOf(v) ==
    IF v.t = "list" THEN StripItems(v.l)
    ELSE IF v.t = "str" THEN StripItems(Split(Strip(v.s, {"[", "]", " "})))
    ELSE <<>>

\* The invocation was rejected with an error and issued no external call.
RejectedWithoutCall == calls = <<>> /\ (Acted => pc = "done" /\ outcome = "raise")

\* The enumerated parameter's value, exactly as supplied, is not one of the
\* listed values.
OutsideAsSupplied ==
    \/ /\ op = "lookup_team"
       /\ \/ args.activeStatus.t = "none"
          \/ args.activeStatus.s \notin {<<"Y">>, <<"N">>, <<"B">>}
    \/ /\ op = "league_leader_data"
       /\ args.playerPool.t = "str"
       /\ args.playerPool.s \notin {<<"all">>, <<"qualified">>, <<"rookies">>}
    \/ /\ op = "player_stat_data"
       /\ \E g \in Range(ItemsOf(args.group)) :
             g \notin {<<"hitting">>, <<"pitching">>, <<"fielding">>}

\* The value is not one of the listed values even after the handler's own
\* normalisation: activeStatus upper-cased, playerPool trimmed and
\* lower-cased, group items trimmed.
OutsideNormalized ==
    \/ /\ op = "lookup_team"
       /\ \/ args.activeStatus.t = "none"
          \/ Upper(args.activeStatus.s) \notin {<<"Y">>, <<"N">>, <<"B">>}
    \/ /\ op = "league_leader_data"
       /\ args.playerPool.t = "str"
       /\ Lower(Strip(args.playerPool.s, {" "}))
             \notin {<<"all">>, <<"qualified">>, <<"rookies">>}
    \/ /\ op = "player_stat_data"
       /\ \E g \in Range(ItemsOf(args.group)) :
             g \notin {<<"hitting">>, <<"pitching">>, <<"fielding">>}

RequiredOmitted ==
    \/ op \in {"game_highlight_data", "scoring_play_data", "linescore"} /\ args.gameID = NONE
    \/ op = "boxscore" /\ args.gamePk = NONE
    \/ op \in {"last_game", "next_game"} /\ args.teamID = NONE
    \/ op = "lookup_player" /\ args.player_name = NONE
    \/ op = "lookup_team" /\ args.lookup_value = NONE
    \/ op = "league_leader_data" /\ args.leaderCategories = NONE
    \/ op = "player_stat_data" /\ args.personID = NONE
    \/ op = "team_leaders" /\ args.leaderCategories.t = "none"

\* C2: an invocation that omits a required argument is reported as an
\* argument-validation error, and no external call is made for it.
C2_MissingArgumentRejected ==
    RequiredOmitted =>
        /\ calls = <<>>
        /\ Acted => /\ outcome = "raise"
                    /\ "ValueError" \in {err.type, err.cause}

\* The operations whose returned mapping carries a "query" entry.
QueryOps == {"league_leader_data", "linescore", "lookup_team", "player_stat_data",
             "roster", "standings", "team_leaders"}

\* C3, as stated: every successful invocation returns a mapping with a
\* "query" entry.
C3_AsStated == (outcome = "return" /\ result.t = "dict") => "query" \in DOMAIN result.d

\* C3, amended: a successful invocation returns a mapping with a "query"
\* entry next to its result exactly when the operation is league_leader_data,
\* linescore, lookup_team, player_stat_data, roster, standings or
\* team_leaders; the other operations return their result without the query,
\* and date returns a bare string.
C3_QueryOps ==
    outcome = "return" =>
        /\ op \in QueryOps =>
              /\ result.t = "dict"
              /\ "query" \in DOMAIN result.d
              /\ DOMAIN result.d # {"query"}
        /\ op \notin QueryOps => "query" \notin DOMAIN result.d
        /\ op = "date" <=> result.t = "str"

\* linescore returned, with the game id it was given echoed in the query.
C3_Witness ==
    /\ op = "linescore" /\ outcome = "return"
    /\ result.d.query.gamePk = "565997"
    /\ {"formatted", "json"} \subseteq DOMAIN result.d

\* An external call of the current invocation failed.
SomeCallFailed == \E i \in DOMAIN calls : calls[i].status = "fail"

\* The operations that catch every exception and return it as a mapping.
ErrorDictOps == {"game_highlight_data", "scoring_play_data", "last_game",
                 "lastest_season", "next_game"}

\* C4, as stated: when the external call fails or returns no data the
\* invocation ends in a raised error wrapped with the operation's context,
\* never in a returned value.
C4_AsStated ==
    (pc = "done" /\ \E i \in DOMAIN calls : calls[i].status \in {"fail", "empty"}) =>
        outcome = "raise" /\ err.type = "Exception" /\ err.ctx # ""

\* C4, amended: when an external call fails, league_leader_data raises the
\* client's error as it is, game_highlight_data, scoring_play_data,
\* last_game, lastest_season and next_game return the mapping {"error": text},
\* and every other operation raises an error wrapped with its context; a call
\* that returns no data is an error only in lookup_player, which raises a
\* wrapped error, and is a normal return everywhere else.
C4_ByOperation ==
    /\ (pc = "done" /\ SomeCallFailed) =>
          CASE op = "league_leader_data" ->
                  outcome = "raise" /\ err = [type |-> "StatsApiError", ctx |-> "", cause |-> ""]
            [] op \in ErrorDictOps ->
                  outcome = "return" /\ DOMAIN result.d = {"error"}
            [] OTHER ->
                  /\ outcome = "raise" /\ err.type = "Exception"
                  /\ err.ctx # "" /\ err.cause = "StatsApiError"
    /\ (pc = "done" /\ ~SomeCallFailed /\ \E i \in DOMAIN calls : calls[i].status = "empty") =>
          IF op = "lookup_player"
          THEN outcome = "raise" /\ err.type = "Exception" /\ err.ctx # ""
          ELSE outcome = "return" /\ "error" \notin DOMAIN result.d

\* scoring_play_data's call failed and the invocation is over.
C4_Witness ==
    /\ op = "scoring_play_data" /\ pc = "done"
    /\ calls[1].status = "fail" /\ outcome = "return"

\* C5: once an external call of the invocation has failed, or the invocation
\* has raised, the caller receives no part of the result: nothing at all when
\* the error is raised, and only the "error" entry when it is returned.
C5_NoPartialResult ==
    (pc = "done" /\ (SomeCallFailed \/ outcome = "raise")) =>
        \/ outcome = "raise" /\ result = NoResult
        \/ outcome = "return" /\ DOMAIN result.d = {"error"}

\* team_leaders fetched its first category, stored it, and failed on the
\* second.
C5_Witness ==
    /\ op = "team_leaders" /\ pc = "done" /\ outcome = "raise"
    /\ Len(calls) = 2 /\ calls[1].status = "data" /\ calls[2].status = "fail"
    /\ formatted_map # EmptyDict

\* The operations that hand two related calls to the executor.
TwoCallOps == {"standings", "player_stat_data"}

\* The requested type list is empty or holds only career and season.
Formattable ==
    \/ ItemsOf(args.type) = <<>>
    \/ Range(ItemsOf(args.type)) \subseteq {<<"career">>, <<"season">>}

\* C6, as stated: when exactly one of the two sub-calls of standings or
\* player_stat_data fails and the other succeeds, the invocation still
\* returns, with the result of the sub-call that succeeded.
C6_AsStated ==
    (/\ pc = "done" /\ op \in TwoCallOps /\ Len(calls) = 2
     /\ \E i, j \in {1, 2} : calls[i].status = "fail" /\ calls[j].status = "data")
    => /\ outcome = "return"
       /\ \E j \in {1, 2} : Ret(calls[j]) \in {result.d.formatted, result.d.json}

\* C6, amended: both sub-calls are handed to the executor before either is
\* awaited, and a sub-call is never withdrawn once issued, so the failure of
\* one does not stop the other from running; but the invocation returns only
\* if every sub-call succeeded, and when a sub-call has failed it raises and
\* hands back nothing of the sub-call that succeeded.
C6_FailsAsAWhole ==
    (op \in TwoCallOps /\ Acted /\ calls # <<>>) =>
        /\ Len(calls) = IF op = "standings"
                        THEN (IF args.includeJson THEN 2 ELSE 1)
                        ELSE (IF Formattable THEN 2 ELSE 1)
        /\ \A i \in DOMAIN calls : calls[i].via = "executor"
        /\ outcome = "return" => \A i \in DOMAIN calls : calls[i].status \in {"data", "empty"}
        /\ (pc = "done" /\ SomeCallFailed) => outcome = "raise" /\ result = NoResult

\* player_stat_data's raw call failed, its formatted call ran to the end and
\* succeeded, and the invocation raised.
C6_Witness ==
    /\ op = "player_stat_data" /\ pc = "done" /\ Len(calls) = 2
    /\ calls[1].status = "fail" /\ calls[2].status = "data"
    /\ outcome = "raise" /\ result = NoResult

\* The canonical form of a list of items: the trimmed, non-empty items
\* between brackets, separated by commas; None when there is none.
Canonical(items) ==
    LET kept == SelectSeq([i \in DOMAIN items |-> Strip(items[i], {" "})],
                          LAMBDA x : x # <<>>)
    IN  IF kept = <<>> THEN PyNone ELSE PyStr(<<"[">> \o Join(kept) \o <<"]">>)

\* The group argument every external call of the invocation carries is g,
\* and none carries a group when g is None.
ForwardedGroup(g) ==
    \A i \in DOMAIN calls :
        IF g = PyNone THEN "group" \notin DOMAIN calls[i].params
        ELSE "group" \in DOMAIN calls[i].params /\ calls[i].params.group = g

\* Every list of the inputs with each of its string forms.
ListsAndForms == UNION {{<<l, s>> : s \in StringForms(l)} : l \in GroupListInputs}

Requested ==
    IF args.leaderCategories.t = "str" THEN <<args.leaderCategories.s>>
    ELSE args.leaderCategories.l

\* The formatted fetches of the invocation.
FormattedFetches == {i \in DOMAIN calls : calls[i].fn = "statsapi.team_leaders"}

\* C8, as stated: team_leaders with a single category string returns a
\* scalar formatted result; with several categories it returns a mapping with
\* one key per requested category, as many formatted fetches were made as
\* categories were requested, and the mapping has that many entries.
C8_AsStated ==
    (op = "team_leaders" /\ outcome = "return") =>
        /\ args.leaderCategories.t = "str" => result.d.formatted.scalar
        /\ Cardinality(FormattedFetches) = Len(Requested)
        /\ Len(Requested) > 1 =>
              /\ ~result.d.formatted.scalar
              /\ DOMAIN result.d.formatted.m = Range(Requested)
              /\ Cardinality(DOMAIN result.d.formatted.m) = Len(Requested)

\* C8, amended: team_leaders with a single category string returns a scalar
\* formatted result; with several categories it returns a mapping with one
\* key per distinct requested category, each value being what that
\* category's last fetch returned; as many formatted fetches are made as
\* categories were requested, a category requested twice being fetched twice.
C8_DistinctCategories ==
    (op = "team_leaders" /\ outcome = "return") =>
        /\ args.leaderCategories.t = "str" =>
              /\ result.d.formatted.scalar
              /\ result.d.formatted.v = Ret(calls[1])
        /\ Cardinality(FormattedFetches) = Len(Requested)
        /\ \A i \in FormattedFetches : calls[i].params.leaderCategories = Requested[i]
        /\ Len(Requested) > 1 =>
              /\ ~result.d.formatted.scalar
              /\ DOMAIN result.d.formatted.m = Range(Requested)
              /\ \A c \in Range(Requested) :
                    \E i \in FormattedFetches :
                        /\ Requested[i] = c
                        /\ \A j \in FormattedFetches : Requested[j] = c => j <= i
                        /\ result.d.formatted.m[c] = Ret(calls[i])

\* team_leaders was asked for walks twice, fetched twice and returned a
\* mapping with the one key.
C8_Witness ==
    /\ op = "team_leaders" /\ outcome = "return"
    /\ args.leaderCategories = PyList(<<<<"walks">>, <<"walks">>>>)
    /\ Cardinality(FormattedFetches) = 2
    /\ DOMAIN result.d.formatted.m = {<<"walks">>}

\* C9: player_stat_data with type omitted, once past validation, issues the
\* raw call without a type argument and the formatted call with type
\* "season", and adds no warning about formatting.
C9_TypeOmitted ==
    (op = "player_stat_data" /\ args.type = PyNone /\ Acted) =>
        \/ calls = <<>> /\ outcome = "raise"
        \/ /\ Len(calls) = 2
           /\ calls[1].fn = "statsapi.player_stat_data"
           /\ "type" \notin DOMAIN calls[1].params
           /\ calls[2].fn = "statsapi.player_stats"
           /\ "type" \in DOMAIN calls[2].params
           /\ calls[2].params.type = PyStr(<<"season">>)
           /\ FORMATTED_UNAVAILABLE \notin Range(warnings)
           /\ outcome = "return" => FORMATTED_UNAVAILABLE \notin Range(result.d.warnings)

\* player_stat_data returned for an invocation without type.
C9_Witness ==
    /\ op = "player_stat_data" /\ args.type = PyNone /\ outcome = "return"
    /\ calls[2].params.type = PyStr(<<"season">>)
    /\ result.d.formatted = Ret(calls[2])

\* C10: past validation, player_stat_data issues the formatted call exactly
\* when the requested type list is empty or every requested type is career or
\* season.  When some requested type is neither, the invocation fails only if
\* the raw call fails; otherwise it returns formatted = None with the raw
\* JSON and the warning that formatted output is unavailable.  When the
\* formatted call is issued no such warning is returned.
C10_FormatIffFormattable ==
    (op = "player_stat_data" /\ Acted /\ calls # <<>>) =>
        /\ (\E i \in DOMAIN calls : calls[i].fn = "statsapi.player_stats") <=> Formattable
        /\ ~Formattable =>
              /\ outcome = "raise" => calls[1].status = "fail"
              /\ (pc = "done" /\ calls[1].status # "fail") =>
                    /\ outcome = "return"
                    /\ result.d.formatted = NoneRet
                    /\ result.d.json = Ret(calls[1])
                    /\ FORMATTED_UNAVAILABLE \in Range(result.d.warnings)
        /\ (Formattable /\ outcome = "return") =>
              /\ FORMATTED_UNAVAILABLE \notin Range(result.d.warnings)
              /\ result.d.formatted = Ret(calls[2])

\* player_stat_data returned for type "[career,gameLog]": no formatted call,
\* the raw JSON and the warning.
C10_Witness ==
    /\ op = "player_stat_data" /\ outcome = "return"
    /\ args.type = PyStr(<<"[", "career", ",", "gameLog", "]">>)
    /\ Len(calls) = 1 /\ result.d.formatted = NoneRet
    /\ FORMATTED_UNAVAILABLE \in Range(result.d.warnings)

----------------------------------------------------------------------------
\* Tool schema normalization (src/streamlit_app.py, _tool_to_schema).
\*
\* A descriptor is a mapping, an object with model_dump(), an object with
\* dict(), or a plain object.  f gives the value under each key (for a
\* mapping) or attribute (for an object) the function reads, ABSENT when the
\* key or attribute does not exist.

ABSENT == "absent"
EMPTY_MAPPING == "{}"
\* A parameter mapping that is not empty.
PARAMETERS == "{type: object}"
\* An object with model_json_schema(), and what that method returns.
SCHEMA_MODEL == "ArgsModel"
MODEL_JSON_SCHEMA == "ArgsModel.model_json_schema()"

DescriptorKeys == {"name", "tool_name", "description", "desc", "parameters", "args_schema"}
DescriptorShapes == {"mapping", "model_dump", "dict", "object"}

\* The descriptors the normalization is applied to.
Descriptors ==
    {[shape |-> s,
      f |-> [name |-> n, tool_name |-> tn, description |-> d, desc |-> ds,
             parameters |-> p, args_schema |-> a]] :
        s \in DescriptorShapes,
        n \in {ABSENT, NONE, "", "date"}, tn \in {ABSENT, NONE, "", "standings"},
        d \in {ABSENT, NONE, "Current date"}, ds \in {ABSENT, "", "Standings"},
        p \in {ABSENT, NONE, EMPTY_MAPPING, PARAMETERS, SCHEMA_MODEL},
        a \in {ABSENT, EMPTY_MAPPING, SCHEMA_MODEL}}

\* a or b
PyOr(a, b) == IF a \notin {NONE, "", EMPTY_MAPPING} THEN a ELSE b

\* t.get(k, default) of a mapping, getattr(t, k, default) of an object.
GetOr(f, k, default) == IF f[k] = ABSENT THEN default ELSE f[k]

\* if hasattr(params, "model_json_schema"): params = params.model_json_schema()
JsonSchema(params) == IF params = SCHEMA_MODEL THEN MODEL_JSON_SCHEMA ELSE params

\* The isinstance(t, dict) branch; getattr(t, "name", None) of a dict is None.
tool_to_schema_dict(f) ==
    [name |-> PyOr(PyOr(GetOr(f, "name", NONE), GetOr(f, "tool_name", NONE)), NONE),
     description |-> PyOr(PyOr(GetOr(f, "description", NONE), GetOr(f, "desc", "")), ""),
     parameters |-> JsonSchema(PyOr(PyOr(GetOr(f, "parameters", NONE),
                                         GetOr(f, "args_schema", NONE)), EMPTY_MAPPING))]

\* The plain-object branch.
tool_to_schema_object(f) ==
    [name |-> GetOr(f, "name", NONE),
     description |-> PyOr(PyOr(GetOr(f, "description", ""), GetOr(f, "desc", "")), ""),
     parameters |-> JsonSchema(PyOr(PyOr(GetOr(f, "parameters", NONE),
                                         GetOr(f, "args_schema", NONE)), EMPTY_MAPPING))]

\* The normalization with no defaults: what the descriptor holds, as it is.
_tool_to_schema_as_found(t) ==
    [name |-> GetOr(t.f, "name", NONE),
     description |-> GetOr(t.f, "description", NONE),
     parameters |-> GetOr(t.f, "parameters", NONE)]

\* model_dump() and dict() hand back the object's fields as a mapping, which
\* goes through the function again.
_tool_to_schema(t) ==
    IF t.shape \in {"mapping", "model_dump", "dict"}
    THEN tool_to_schema_dict(t.f)
    ELSE tool_to_schema_object(t.f)

\* [_tool_to_schema(t) for t in tools]
_tools_to_schema(tools) == [i \in DOMAIN tools |-> _tool_to_schema(tools[i])]

\* A descriptor arrives.
SchemaInit ==
    /\ HostIdle /\ FrontEndOff
    /\ descriptor \in Descriptors /\ schema = NoSchema
    /\ ListsOff

\* The descriptor is normalized.
Normalize ==
    /\ descriptor # NoDescriptor /\ ~schema.computed
    /\ schema' = [computed |-> TRUE, v |-> _tool_to_schema(descriptor)]
    /\ UNCHANGED <<descriptor, lists, host, front_end>>

SchemaNext == Normalize

SchemaSpec == SchemaInit /\ [][SchemaNext]_vars

----------------------------------------------------------------------------
\* List normalization (_to_multi_str, _parse_multi) taken alone: the value
\* is normalized, and the normalized string is normalized again and parsed.

\* Longest delimited string supplied, in characters.
MaxTokens == 4

\* The characters a delimited string is made of: the separator, a blank,
\* the brackets and two letters.
Chars == {",", " ", "[", "]", "a", "b"}

\* Items of a native list: plain, padded, blank, empty, and items holding a
\* separator or a bracket.
ListItems ==
    {<<"a">>, <<"b">>, <<" ", "a">>, <<"b", " ">>, <<" ">>, <<>>,
     <<"a", ",", "b">>, <<"[", "a">>, <<"a", "]">>, <<"[">>}

MultiInputs ==
    {PyNone} \cup {PyStr(x) : x \in SeqsUpTo(Chars, MaxTokens)}
             \cup {PyList(l) : l \in SeqsUpTo(ListItems, MaxItems)}

MultiInit ==
    /\ HostIdle /\ FrontEndOff
    /\ descriptor = NoDescriptor /\ schema = NoSchema
    /\ value \in MultiInputs
    /\ multi_str = NotComputed /\ multi_str_again = NotComputed /\ parsed = NotComputed

\* _to_multi_str(val) for the value
to_multi_str ==
    /\ ~multi_str.computed
    /\ multi_str' = [computed |-> TRUE, v |-> ToMultiStr(value)]
    /\ UNCHANGED <<value, multi_str_again, parsed, descriptor, schema, host, front_end>>

\* _to_multi_str applied to what _to_multi_str returned
to_multi_str_again ==
    /\ multi_str.computed /\ ~multi_str_again.computed
    /\ multi_str_again' = [computed |-> TRUE, v |-> ToMultiStr(multi_str.v)]
    /\ UNCHANGED <<value, multi_str, parsed, descriptor, schema, host, front_end>>

\* _parse_multi applied to what _to_multi_str returned
parse_multi ==
    /\ multi_str.computed /\ ~parsed.computed
    /\ parsed' = [computed |-> TRUE, v |-> ParseMulti(multi_str.v)]
    /\ UNCHANGED <<value, multi_str, multi_str_again, descriptor, schema, host, front_end>>

MultiNext == to_multi_str \/ to_multi_str_again \/ parse_multi

MultiSpec == MultiInit /\ [][MultiNext]_vars

----------------------------------------------------------------------------
\* The chat front-end (src/streamlit_app.py).
\*
\* Streamlit runs the script from top to bottom once when the page is loaded
\* and once more for every widget the user acts on; st.rerun() starts it
\* again at once.  A run goes through the sidebar (lines 318-343), the guard
\* (lines 353-359) and, with a prompt, the chat turn (lines 383-443); between
\* runs the page waits for the user.  Each call that leaves the process
\* (launching the subprocess, the discovery handshake, building the agent,
\* tearing the subprocess down, the model, the tool) may succeed or raise.

\* Most subprocess launches in one behaviour.
MaxLaunches == 3

\* Most prompts the user submits in one behaviour.
MaxPrompts == 1

\* text[:400]
DIAG_LIMIT == 400

\* The registrations of src/mlb_mcp_server.py, in the order of the file.
REGISTERED ==
    <<"date", "boxscore", "game_highlight_data", "game_pace_data", "scoring_play_data",
      "last_game", "lastest_season", "league_leader_data", "linescore", "lookup_player",
      "lookup_team", "next_game", "player_stat_data", "roster", "game_schedule",
      "standings", "team_leaders">>

\* The Tool object the protocol hands back for one registration.
Tool(n) ==
    [shape |-> "model_dump",
     f |-> [name |-> n, tool_name |-> ABSENT, description |-> "Current date",
            desc |-> ABSENT, parameters |-> ABSENT, args_schema |-> ABSENT]]

\* mcp_client.list_tools_sync()
list_tools_sync == [i \in DOMAIN REGISTERED |-> Tool(REGISTERED[i])]

discover_tools ==
    [tools_native |-> list_tools_sync, tools_schema |-> _tools_to_schema(list_tools_sync)]

Steps == {"ok", "fail"}

\* What the three calls of connect() that leave the process may do.
ConnectOutcomes == [start_mcp : Steps, discover_tools : Steps, agent : Steps]

\* What mcp_client.__exit__ may do: return, or raise with the subprocess
\* ended or still alive.
TeardownOutcomes == {"ok", "raises_released", "raises_alive"}

\* The session and the subprocesses, as the functions below change them.
World == [ss |-> session_state, procs |-> procs, launched |-> launched]

\* start_mcp(): the client is built and entered, which launches the
\* subprocess; a launch that raises leaves no subprocess.
start_mcp(w, o) ==
    IF o = "fail"
    THEN [w |-> w, client |-> 0, raised |-> "start_mcp"]
    ELSE [w |-> [w EXCEPT !.procs = @ \cup {w.launched + 1}, !.launched = @ + 1],
          client |-> w.launched + 1, raised |-> ""]

\* Lines 282-293 with the fallback branch only.
select_mode_fallback(w) ==
    [w EXCEPT !.ss.agent_mode = "fallback", !.ss.agent_obj = "bedrock-runtime"]

\* Lines 282-293: the Strands agent when the import succeeded, else the
\* Bedrock client.
select_mode(w) ==
    IF STRANDS_OK
    THEN [w EXCEPT !.ss.agent_mode = "strands", !.ss.agent_obj = "StrandsAgent"]
    ELSE [w EXCEPT !.ss.agent_mode = "fallback", !.ss.agent_obj = "bedrock-runtime"]

connect(w, o) ==
    IF w.ss.agent_mode # NONE
    THEN [w |-> w, raised |-> ""]
    ELSE LET s == start_mcp(w, o.start_mcp)
             w1 == [s.w EXCEPT !.ss.mcp_client = s.client]
             w2 == [w1 EXCEPT !.ss.tools_native = discover_tools.tools_native,
                              !.ss.tools_schema = discover_tools.tools_schema]
         IN  IF s.raised # "" THEN [w |-> s.w, raised |-> s.raised]
             ELSE IF o.discover_tools = "fail" THEN [w |-> w1, raised |-> "list_tools_sync"]
             ELSE IF o.agent = "fail"
             THEN [w |-> w2, raised |-> IF STRANDS_OK THEN "StrandsAgent" ELSE "br_client"]
             ELSE [w |-> select_mode(w2), raised |-> ""]

\* The subprocesses alive after mcp_client.__exit__.
Exited(w, t) ==
    IF w.ss.mcp_client # 0 /\ t # "raises_alive"
    THEN w.procs \ {w.ss.mcp_client}
    ELSE w.procs

\* What the teardown did: nothing to tear down, returned, or raised.
Teardown(w, t) ==
    IF w.ss.mcp_client = 0 THEN "skipped" ELSE IF t = "ok" THEN "ok" ELSE "raised"

\* disconnect() without the try/except: a teardown that raises leaves the
\* function before the reset.
disconnect_unprotected(w, t) ==
    IF Teardown(w, t) = "raised"
    THEN [w |-> [w EXCEPT !.procs = Exited(w, t)], raised |-> "__exit__",
          teardown |-> "raised"]
    ELSE [w |-> [w EXCEPT !.procs = Exited(w, t),
                          !.ss.mcp_client = 0, !.ss.agent_mode = NONE,
                          !.ss.agent_obj = NONE, !.ss.tools_native = <<>>,
                          !.ss.tools_schema = <<>>],
          raised |-> "", teardown |-> Teardown(w, t)]

\* disconnect() that also empties the chat history.
disconnect_clearing_chat(w, t) ==
    [w |-> [w EXCEPT !.procs = Exited(w, t),
                     !.ss.mcp_client = 0, !.ss.agent_mode = NONE,
                     !.ss.agent_obj = NONE, !.ss.tools_native = <<>>,
                     !.ss.tools_schema = <<>>, !.ss.chat = <<>>],
     raised |-> "", teardown |-> Teardown(w, t)]

disconnect(w, t) ==
    [w |-> [w EXCEPT !.procs = Exited(w, t),
                     !.ss.mcp_client = 0, !.ss.agent_mode = NONE,
                     !.ss.agent_obj = NONE, !.ss.tools_native = <<>>,
                     !.ss.tools_schema = <<>>],
     raised |-> "", teardown |-> Teardown(w, t)]

\* The page is loaded: the first run starts with the state of lines 208-219.
FrontInit ==
    /\ HostIdle /\ NormalizationOff
    /\ session_state = session_state_initial /\ STRANDS_OK \in BOOLEAN
    /\ procs = {} /\ launched = 0 /\ at = "sidebar" /\ event = "load"
    /\ sidebar_msg = NoMessage /\ teardown = "none" /\ response = NoResponse
    /\ dispatched = <<>> /\ escaped = ""
    /\ model_calls = <<>> /\ caught = ""

\* A new run starts on a cleared page.
Rerun(e) ==
    /\ at' = "sidebar" /\ event' = e
    /\ sidebar_msg' = NoMessage /\ teardown' = "none" /\ response' = NoResponse
    /\ dispatched' = <<>> /\ escaped' = ""
    /\ model_calls' = <<>> /\ caught' = ""
    /\ UNCHANGED <<STRANDS_OK, procs, launched, host, normalization>>

\* The user flips the "Start agent" toggle.
Toggle ==
    /\ at = "waiting"
    /\ session_state' = [session_state EXCEPT !.connect_toggle = ~@]
    /\ Rerun("toggle")

\* The "Stop agent" button is on the page when the sidebar got past connect().
StopButtonShown == sidebar_msg.kind \in {"success", "warning"}

\* The user presses "Stop agent".
ClickStop ==
    /\ at = "waiting" /\ StopButtonShown
    /\ UNCHANGED session_state
    /\ Rerun("stop")

Prompts(chat) == Cardinality({i \in DOMAIN chat : chat[i].role = "user"})

\* The guard that never stops the run.
stopped_at_guard_never(ss) == FALSE

\* Lines 353-359: with no agent the run ends at st.stop(), before the
\* history and the chat input.
stopped_at_guard(ss) == ss.agent_mode = NONE

\* The user submits a prompt; the chat input is on the page when the guard
\* let the run through.
SubmitPrompt ==
    /\ at = "waiting" /\ ~stopped_at_guard(session_state) /\ escaped = ""
    /\ Prompts(session_state.chat) < MaxPrompts
    /\ UNCHANGED session_state
    /\ Rerun("prompt")

\* st.sidebar.success / st.sidebar.warning of lines 324-335
ConnectedMessage(ss) ==
    [kind |-> IF ss.agent_mode = "strands" THEN "success" ELSE "warning", e |-> ""]

\* st.sidebar.error(f"Failed to start: {e}")
FailedToStart(e) == [kind |-> "error", e |-> e]

Becomes(w) == session_state' = w.ss /\ procs' = w.procs /\ launched' = w.launched

\* Lines 318-343.
sidebar ==
    /\ at = "sidebar"
    /\ IF session_state.connect_toggle
       THEN \E o \in ConnectOutcomes : \E t \in TeardownOutcomes :
              LET c == connect(World, o)
                  d == disconnect(c.w, t)
              IN  /\ c.w.launched <= MaxLaunches
                  /\ IF c.raised # ""
                     THEN /\ Becomes(c.w) /\ sidebar_msg' = FailedToStart(c.raised)
                          /\ at' = "guard" /\ teardown' = "none"
                          /\ UNCHANGED <<event, escaped>>
                     ELSE IF event # "stop"
                     THEN /\ Becomes(c.w) /\ sidebar_msg' = ConnectedMessage(c.w.ss)
                          /\ at' = "guard" /\ teardown' = "none"
                          /\ UNCHANGED <<event, escaped>>
                     ELSE IF d.raised # ""
                     THEN /\ Becomes(d.w) /\ sidebar_msg' = FailedToStart(d.raised)
                          /\ at' = "guard" /\ teardown' = d.teardown
                          /\ UNCHANGED <<event, escaped>>
                     ELSE \* disconnect(), then st.rerun()
                          /\ Becomes(d.w) /\ sidebar_msg' = NoMessage
                          /\ at' = "sidebar" /\ event' = "rerun" /\ teardown' = d.teardown
                          /\ UNCHANGED escaped
       ELSE IF session_state.agent_mode # NONE
       THEN \E t \in TeardownOutcomes :
              LET d == disconnect(World, t)
              IN  /\ Becomes(d.w) /\ teardown' = d.teardown /\ escaped' = d.raised
                  /\ at' = IF d.raised # "" THEN "waiting" ELSE "guard"
                  /\ UNCHANGED <<event, sidebar_msg>>
       ELSE /\ at' = "guard"
            /\ UNCHANGED <<session_state, procs, launched, event, sidebar_msg, teardown,
                           escaped>>
    /\ UNCHANGED <<STRANDS_OK, response, dispatched, model_calls, caught, host,
                   normalization>>

\* Lines 353-359 and the test of line 383: st.stop() ends the run when no
\* agent is connected; a run without a prompt ends after the history.
guard ==
    /\ at = "guard"
    /\ at' = IF ~stopped_at_guard(session_state) /\ event = "prompt"
             THEN "chat" ELSE "waiting"
    /\ UNCHANGED <<session_state, STRANDS_OK, procs, launched, event, sidebar_msg,
                   teardown, response, dispatched, escaped, model_calls, caught, host,
                   normalization>>

\* Chat messages: content with n characters; extra is what follows the
\* content, the tool's result in a tool message and the exception's text
\* in an error message.
User == [role |-> "user", content |-> "prompt", n |-> 0, extra |-> ""]
Assistant(content, n) == [role |-> "assistant", content |-> content, n |-> n, extra |-> ""]
ToolMessage(tname, res) == [role |-> "tool", content |-> tname, n |-> 0, extra |-> res]

\* err = f"Error: {e}"
ErrorMessage(e) == [role |-> "assistant", content |-> "Error: ", n |-> 0, extra |-> e]

\* The handler that swallows the exception.
except_Exception_pass(e) == <<>>

\* Lines 439-443: what the handler of the chat turn appends for e.
except_Exception(e) == <<ErrorMessage(e)>>

\* Lines 389-395: the Strands agent plans and calls the tools itself.
chat_strands ==
    /\ at = "chat" /\ session_state.agent_mode = "strands"
    /\ \E r \in Steps :
          /\ session_state' =
                [session_state EXCEPT !.chat =
                     @ \o <<User>> \o (IF r = "ok" THEN <<Assistant("text", 0)>>
                                       ELSE except_Exception("agent_obj"))]
          /\ caught' = IF r = "ok" THEN "" ELSE "agent_obj"
    /\ at' = "waiting"
    /\ UNCHANGED <<STRANDS_OK, procs, launched, event, sidebar_msg, teardown, response,
                   dispatched, escaped, model_calls, host, normalization>>

\* What the planner model's answer may be.  form says where br_plan finds
\* the text: "raises" (invoke_model raises or the body is not JSON), "str"
\* (a string, from output.message.content[0].text or from content), "list"
\* (content is a list of blocks, items giving the length of each) or "other"
\* (content is a mapping or a number).  For a string, kind says what it
\* holds and n how many characters.
Response(form, kind, n, items, tool_name) ==
    [form |-> form, kind |-> kind, n |-> n, items |-> items, tool_name |-> tool_name]

PlannerResponses ==
    {Response("raises", "", 0, <<>>, NONE)}
    \cup {Response("str", "final", 20, <<>>, NONE)}
    \cup {Response("str", "tool", 60, <<>>, tn) : tn \in {NONE, "", "date", "weather"}}
    \cup {Response("str", "not_an_object", 2, <<>>, NONE)}
    \cup {Response("str", "not_json", n, <<>>, NONE) :
              n \in {1, DIAG_LIMIT, DIAG_LIMIT + 1}}
    \cup {Response("list", "", 0, l, NONE) : l \in {<<12>>, <<DIAG_LIMIT + 1, 7>>}}
    \cup {Response("other", "", 0, <<>>, NONE)}

Min(a, b) == IF a < b THEN a ELSE b

RECURSIVE Sum(_)
Sum(s) == IF s = <<>> THEN 0 ELSE Head(s) + Sum(Tail(s))

\* How many characters of the answer text[:400] holds: the first 400
\* characters of a string, the first 400 items of a list.
Slice(r) ==
    IF r.form = "str" THEN Min(r.n, DIAG_LIMIT)
    ELSE Sum(SubSeq(r.items, 1, Min(Len(r.items), DIAG_LIMIT)))

Plan(t, final, n, tool_name) == [t |-> t, final |-> final, n |-> n, tool_name |-> tool_name]

\* {"final": f"Could not parse model JSON: {text[:400]}"}
Diagnostic(r) == Plan("dict", "Could not parse model JSON", Slice(r), NONE)

\* br_plan without the try/except around json.loads(text).
br_plan_unprotected(r) ==
    IF r.form = "str" /\ r.kind # "not_json"
    THEN [raised |-> "", plan |-> Plan("dict", "", 0, r.tool_name)]
    ELSE [raised |-> "json.loads", plan |-> Plan("none", "", 0, NONE)]

\* br_plan: the plan, or the exception it lets out.
br_plan(r) ==
    IF r.form = "raises" THEN [raised |-> "invoke_model", plan |-> Plan("none", "", 0, NONE)]
    ELSE IF r.form = "other"
    THEN \* json.loads(text) raises, and so does text[:400] in the handler
         [raised |-> "TypeError", plan |-> Plan("none", "", 0, NONE)]
    ELSE IF r.form = "list" \/ r.kind = "not_json" THEN [raised |-> "", plan |-> Diagnostic(r)]
    ELSE IF r.kind = "final" THEN [raised |-> "", plan |-> Plan("dict", "final", r.n, NONE)]
    ELSE IF r.kind = "tool" THEN [raised |-> "", plan |-> Plan("dict", "", 0, r.tool_name)]
    ELSE [raised |-> "", plan |-> Plan("not_a_dict", "", 0, NONE)]

Request(tname) == [tool_name |-> tname, args |-> EmptyDict]

\* An invoke_model call: the planning call, or the summarizing call with
\* the tool and the result it was given.
ModelCall(kind, tool_name, res) == [kind |-> kind, tool_name |-> tool_name, result |-> res]
PlanCall == ModelCall("plan", NONE, "")
SummarizeCall(tname, res) == ModelCall("summarize", tname, res)

\* call_tool_sync returns the result, returns an error payload, or raises.
ToolOutcomes == {"ok", "error", "fail"}

\* br_reflect returns the summary, raises from invoke_model or from the
\* reading of its answer, or raises before it (json.dumps of the result).
ReflectOutcomes == {"ok", "fail", "not_sent"}

\* What one chat turn did: the messages appended after the user's, the
\* requests sent to the Tool Host, the model calls and the exception caught.
Did(chat, sent, calls_made, e) ==
    [chat |-> chat, sent |-> sent, model_calls |-> calls_made, caught |-> e]

\* Lines 418-437 with the tool called a second time when the first call
\* raises.
tool_turn_retrying(tname, call, reflect) ==
    IF call = "fail"
    THEN Did(except_Exception("call_tool_sync"), <<Request(tname), Request(tname)>>, <<>>,
             "call_tool_sync")
    ELSE Did(<<ToolMessage(tname, call), Assistant("summary", 0)>>, <<Request(tname)>>,
             <<SummarizeCall(tname, call)>>, "")

\* Lines 418-437 with the answer written without the summarizing call.
tool_turn_unsummarized(tname, call, reflect) ==
    IF call = "fail"
    THEN Did(except_Exception("call_tool_sync"), <<Request(tname)>>, <<>>, "call_tool_sync")
    ELSE Did(<<ToolMessage(tname, call), Assistant("summary", 0)>>, <<Request(tname)>>,
             <<>>, "")

\* Lines 418-437: the tool is called, its result appended and summarized.
tool_turn(tname, call, reflect) ==
    IF call = "fail"
    THEN Did(except_Exception("call_tool_sync"), <<Request(tname)>>, <<>>, "call_tool_sync")
    ELSE IF reflect = "ok"
    THEN Did(<<ToolMessage(tname, call), Assistant("summary", 0)>>, <<Request(tname)>>,
             <<SummarizeCall(tname, call)>>, "")
    ELSE IF reflect = "fail"
    THEN Did(<<ToolMessage(tname, call)>> \o except_Exception("br_reflect"),
             <<Request(tname)>>, <<SummarizeCall(tname, call)>>, "br_reflect")
    ELSE Did(<<ToolMessage(tname, call)>> \o except_Exception("json.dumps"),
             <<Request(tname)>>, <<>>, "json.dumps")

\* Lines 398-443 for one plan: the messages appended after the user's, the
\* requests sent to the Tool Host, the model calls made and the exception
\* caught.
Turn(p, call, reflect) ==
    LET t == IF p.raised # "" THEN Did(except_Exception(p.raised), <<>>, <<>>, p.raised)
             ELSE IF p.plan.t # "dict"
             THEN \* "final" in plan, or plan.get, raises on a value that is no mapping
                  Did(except_Exception("plan"), <<>>, <<>>, "plan")
             ELSE IF p.plan.final # ""
             THEN Did(<<Assistant(p.plan.final, p.plan.n)>>, <<>>, <<>>, "")
             ELSE IF p.plan.tool_name \in {NONE, ""}
             THEN Did(<<Assistant("Planner did not choose a tool", 0)>>, <<>>, <<>>, "")
             ELSE tool_turn(p.plan.tool_name, call, reflect)
    IN  [t EXCEPT !.model_calls = <<PlanCall>> \o @]

\* Lines 398-443: plan, call the tool, summarize.
chat_fallback ==
    /\ at = "chat" /\ session_state.agent_mode # "strands"
    /\ \E r \in PlannerResponses : \E call \in ToolOutcomes : \E reflect \in ReflectOutcomes :
          LET turn == Turn(br_plan(r), call, reflect)
          IN  /\ response' = r
              /\ session_state' = [session_state EXCEPT !.chat = @ \o <<User>> \o turn.chat]
              /\ dispatched' = turn.sent
              /\ model_calls' = turn.model_calls
              /\ caught' = turn.caught
    /\ at' = "waiting"
    /\ UNCHANGED <<STRANDS_OK, procs, launched, event, sidebar_msg, teardown, escaped,
                   host, normalization>>

FrontNext ==
    \/ Toggle \/ ClickStop \/ SubmitPrompt
    \/ sidebar \/ guard \/ chat_strands \/ chat_fallback

FrontSpec == FrontInit /\ [][FrontNext]_vars

----------------------------------------------------------------------------
\* Properties of the chat front-end, of the normalization and of the
\* registrations.

Connected == session_state.agent_mode # NONE

ToolsDiscarded == session_state.tools_native = <<>> /\ session_state.tools_schema = <<>>

\* C11: the number of live Tool Host subprocesses is 0 whenever the session
\* is Disconnected and exactly 1 whenever it is Connected, and the
\* descriptors a connected session holds are those of the first discovery.
C11_NoHandleLeak ==
    /\ ~Connected => procs = {}
    /\ Connected =>
          /\ Cardinality(procs) = 1
          /\ session_state.tools_schema = discover_tools.tools_schema

\* C12: once disconnect() has torn the subprocess down, whether __exit__
\* returned or raised, mcp_client, agent_mode and agent_obj are None,
\* tools_native and tools_schema are empty, and no exception left
\* disconnect(): none escaped the script and none reached the sidebar's
\* handler.
C12_ResetCompletes ==
    teardown \in {"ok", "raised"} =>
        /\ session_state.mcp_client = 0
        /\ session_state.agent_mode = NONE /\ session_state.agent_obj = NONE
        /\ ToolsDiscarded
        /\ escaped = "" /\ sidebar_msg.kind # "error"

\* The toggle was switched off while connected, __exit__ raised, and the run
\* went on to the guard with the session reset.
C12_Witness ==
    /\ teardown = "raised" /\ at = "guard" /\ event = "toggle"
    /\ session_state.mcp_client = 0 /\ session_state.agent_mode = NONE

\* C13: when connect() fails the sidebar shows the error with its message
\* and the connection is rolled back: mcp_client is None, no subprocess
\* stays alive, tools_native and tools_schema are empty, agent_mode is None.
C13_RolledBack ==
    sidebar_msg.kind = "error" =>
        /\ sidebar_msg.e # ""
        /\ session_state.mcp_client = 0 /\ procs = {}
        /\ ToolsDiscarded /\ session_state.agent_mode = NONE

Discovered == {session_state.tools_schema[i].name : i \in DOMAIN session_state.tools_schema}

\* C14: every tool invocation the fallback loop sends to the Tool Host names
\* a tool of the discovered descriptors.
C14_DispatchedAreDiscovered ==
    \A i \in DOMAIN dispatched : dispatched[i].tool_name \in Discovered

\* The answers json.loads(text) does not parse.
NotParseable(r) == r.form \in {"list", "other"} \/ (r.form = "str" /\ r.kind = "not_json")

\* A fallback turn has just ended on an answer that does not parse.
AfterUnparsed == at = "waiting" /\ event = "prompt" /\ NotParseable(response)

LastMessage == session_state.chat[Len(session_state.chat)]

\* The turn added the user message and one more.
OneReply ==
    /\ Len(session_state.chat) >= 2
    /\ session_state.chat[Len(session_state.chat) - 1] = User
    /\ LastMessage.role = "assistant"

C16_LaunchOnlyOnRequest ==
    [][launched' > launched => event = "toggle"]_vars

ModeOfImport == IF STRANDS_OK THEN "strands" ELSE "fallback"

\* C17: whenever a step leaves the session with a mode, it is "strands" if
\* the import of the agent library succeeded and "fallback" if it did not,
\* and a session that had a mode before the step keeps it.
C17_ModeByImport ==
    [][session_state'.agent_mode # NONE =>
          /\ session_state'.agent_mode = ModeOfImport
          /\ Connected => session_state'.agent_mode = session_state.agent_mode]_vars

\* A Strands session that stayed connected through a chat turn.
C17_Witness ==
    /\ STRANDS_OK /\ session_state.agent_mode = "strands"
    /\ at = "waiting" /\ Prompts(session_state.chat) >= 1

\* The descriptor holds none of the keys.
Missing(keys) == \A k \in keys : descriptor.f[k] = ABSENT

\* C18 as stated: every field missing from the descriptor comes out empty,
\* the name as the empty string.
C18_AsStated ==
    schema.computed =>
        /\ Missing({"name", "tool_name"}) => schema.v.name = ""
        /\ Missing({"description", "desc"}) => schema.v.description = ""
        /\ Missing({"parameters", "args_schema"}) => schema.v.parameters = EMPTY_MAPPING

\* C18: for every descriptor shape the normalization yields a record of
\* name, description and parameters; a missing description comes out as the
\* empty string, missing parameters as the empty mapping, and a missing name
\* as None.
C18_Normalized ==
    schema.computed =>
        /\ DOMAIN schema.v = {"name", "description", "parameters"}
        /\ Missing({"name", "tool_name"}) => schema.v.name = NONE
        /\ Missing({"description", "desc"}) => schema.v.description = ""
        /\ Missing({"parameters", "args_schema"}) => schema.v.parameters = EMPTY_MAPPING

\* A plain object with none of the attributes has been normalized.
C18_Witness ==
    /\ schema.computed /\ descriptor.shape = "object" /\ Missing(DescriptorKeys)
    /\ schema.v = [name |-> NONE, description |-> "", parameters |-> EMPTY_MAPPING]

\* C19 as stated: every invocation the host serves is of an operation of
\* the catalogue.
C19_AsStated == pc # "idle" => op \in Catalogue

\* C19: the registered names are fixed: the catalogue and "lastest_season",
\* seventeen in all, and every invocation the host serves is of one of them.
C19_RegisteredNames ==
    /\ OPS = Catalogue \cup {"lastest_season"}
    /\ Range(REGISTERED) = OPS /\ Len(REGISTERED) = Cardinality(OPS)
    /\ pc # "idle" => op \in OPS

\* The host served an invocation of "lastest_season".
C19_Witness == op = "lastest_season" /\ pc = "done" /\ outcome = "return"

\* C20: team_leaders forwards one season to every external call of the
\* invocation and echoes it as query.season: the season supplied, or the
\* current year when it is omitted.
C20_OneSeason ==
    (op = "team_leaders" /\ pc \notin {"idle", "called"} /\ locals # EmptyDict) =>
        /\ args.season # NONE => locals.season_val = args.season
        /\ args.season = NONE => locals.season_val \in CurrentYears
        /\ \A i \in DOMAIN calls : calls[i].params.season = locals.season_val
        /\ outcome = "return" => result.d.query.season = locals.season_val

\* team_leaders returned for two categories with the raw data and no
\* season: three calls, all with the current year.
C20_Witness ==
    /\ op = "team_leaders" /\ outcome = "return" /\ args.season = NONE
    /\ Len(calls) = 3 /\ calls[3].fn = "statsapi.team_leader_data"
    /\ \A i \in DOMAIN calls : calls[i].params.season \in CurrentYears

----------------------------------------------------------------------------
\* player_stat_data: a season without the "season" type

\* A season is supplied and the parsed type list has no "season" (an
\* omitted type included).
SeasonWithoutType ==
    /\ op = "player_stat_data" /\ pc # "idle"
    /\ Truthy(args.season)
    /\ <<"season">> \notin Range(ParseMulti(ToMultiStr(args.type)))

\* C21: in player_stat_data a season supplied while the type list has no
\* "season" (type omitted included) does not abort the call: no external
\* call, raw or formatted, carries the season; the invocation raises only
\* when a check of the other arguments fails or an external call fails;
\* and when it returns, the result carries the season warning and echoes
\* the season in its query.
C21_SeasonIgnored ==
    SeasonWithoutType =>
        /\ \A i \in DOMAIN calls : "season" \notin DOMAIN calls[i].params
        /\ outcome = "raise" => (~psd_valid(args) \/ SomeCallFailed)
        /\ (pc = "done" /\ psd_valid(args) /\ ~SomeCallFailed) =>
              /\ outcome = "return"
              /\ SEASON_IGNORED \in Range(result.d.warnings)
              /\ result.d.query.season = args.season

\* player_stat_data returned for a season and no type: the raw and the
\* formatted call were made, neither with the season, and the warning is
\* in the result.
C21_Witness ==
    /\ SeasonWithoutType /\ args.type = PyNone /\ outcome = "return"
    /\ Len(calls) = 2
    /\ \A i \in DOMAIN calls : "season" \notin DOMAIN calls[i].params
    /\ SEASON_IGNORED \in Range(result.d.warnings)

----------------------------------------------------------------------------
\* Two related external calls of one invocation

\* The operations that fetch a formatted and a raw view of one entity.
TwoViewOps == {"linescore", "standings", "player_stat_data"}

\* C22: an operation that makes two related external calls (linescore,
\* standings, player_stat_data) issues both before awaiting either: each
\* of the two is handed over without blocking the handler, the second is
\* issued whatever became of the first, and the handler returns only when
\* both have completed.
C22_BothInFlight ==
    (op \in TwoViewOps /\ pc # "idle" /\ Len(calls) = 2) =>
        /\ \A i \in DOMAIN calls : calls[i].via = "executor"
        /\ outcome = "return" => \A i \in DOMAIN calls : calls[i].status # "pending"

\* The external calls issued and not yet finished.
InFlight == {i \in DOMAIN calls : calls[i].status = "pending"}

\* C23: within one invocation at most two external calls are in flight at
\* once; team_leaders, whatever the number of categories and with or
\* without the raw data, never has more than one in flight: each call is
\* issued only after every earlier one has finished.
C23_AtMostTwoInFlight ==
    /\ Cardinality(InFlight) <= 2
    /\ (op = "team_leaders" /\ pc # "idle") =>
          /\ Cardinality(InFlight) <= 1
          /\ \A i \in DOMAIN calls : i < Len(calls) => calls[i].status # "pending"

\* team_leaders has its third call, the raw data after two categories, in
\* flight and nothing else.
C23_Witness ==
    /\ op = "team_leaders" /\ Len(calls) = 3
    /\ calls[3].fn = "statsapi.team_leader_data"
    /\ InFlight = {3}

----------------------------------------------------------------------------
\* List normalization: idempotence and round trip

\* C29, as stated: for every list or delimited string, normalizing the
\* normalized value changes nothing, and parsing the normalized value
\* gives the trimmed non-empty items of the value, in order, duplicates
\* kept.
C29_AsStated ==
    /\ multi_str_again.computed => multi_str_again.v = multi_str.v
    /\ parsed.computed => parsed.v = ItemsOf(value)

\* No trimmed item of the value holds a separator or a bracket.
PlainItems ==
    \A i \in DOMAIN ItemsOf(value) :
        \A k \in DOMAIN ItemsOf(value)[i] : ItemsOf(value)[i][k] \notin {",", "[", "]"}

\* C29, amended: when no item holds a comma or a bracket, normalizing the
\* normalized value changes nothing and parsing it gives the trimmed
\* non-empty items of the value, in order, duplicates kept.
C29_RoundTrip ==
    PlainItems =>
        /\ multi_str_again.computed => multi_str_again.v = multi_str.v
        /\ parsed.computed => parsed.v = ItemsOf(value)

\* A padded list with the same item twice went through both calls and
\* came back as the two trimmed items.
C29_Witness ==
    /\ value = PyList(<<<<" ", "a">>, <<" ", "a">>>>)
    /\ multi_str_again.computed /\ multi_str_again.v = PyStr(<<"[", "a", ",", "a", "]">>)
    /\ parsed.computed /\ parsed.v = <<<<"a">>, <<"a">>>>

----------------------------------------------------------------------------
\* The chat turn in FallbackPlanner mode

\* The run handled a prompt in FallbackPlanner mode and is over.
FallbackTurnDone ==
    /\ event = "prompt" /\ at = "waiting" /\ session_state.agent_mode = "fallback"

\* The plan br_plan returned chooses a tool.
ToolChosen ==
    /\ br_plan(response).raised = "" /\ br_plan(response).plan.t = "dict"
    /\ br_plan(response).plan.final = ""
    /\ br_plan(response).plan.tool_name \notin {NONE, ""}

\* The messages of the chat after the last message of the user.
RECURSIVE Reply(_)
Reply(chat) ==
    IF chat = <<>> \/ chat[Len(chat)].role = "user" THEN <<>>
    ELSE Append(Reply(SubSeq(chat, 1, Len(chat) - 1)), chat[Len(chat)])

\* The model calls of this run's turn of the given kind.
CallsOfKind(k) == SelectSeq(model_calls, LAMBDA c : c.kind = k)

\* C24, as stated: whenever the plan chooses a tool, the tool is
\* dispatched, the summarize call is made with the tool and its result, and
\* a tool turn followed by the summary assistant turn is appended after
\* the user turn, also when the tool call ends in an error.
C24_AsStated ==
    (FallbackTurnDone /\ ToolChosen) =>
        /\ Len(dispatched) = 1
        /\ Len(CallsOfKind("summarize")) = 1
        /\ Len(Reply(session_state.chat)) = 2
        /\ Reply(session_state.chat)[1].role = "tool"
        /\ Reply(session_state.chat)[2].role = "assistant"

\* C24, amended: whenever the plan chooses a tool it is dispatched once.
\* When call_tool_sync returns, with a result or an error payload, a tool
\* turn holding that result is appended and then one assistant turn: the
\* summary, after a summarize call made with the tool name and that
\* result, or the error text when the summarizer raises, before or after
\* its model call.  When call_tool_sync raises, no tool turn is appended
\* and no summarize call is made: the one turn appended is the assistant
\* error text.
C24_ToolThenSummary ==
    (FallbackTurnDone /\ ToolChosen) =>
        LET reply == Reply(session_state.chat)
            tname == br_plan(response).plan.tool_name
        IN  /\ dispatched = <<Request(tname)>>
            /\ caught = "call_tool_sync" =>
                  /\ reply = <<ErrorMessage("call_tool_sync")>>
                  /\ CallsOfKind("summarize") = <<>>
            /\ caught # "call_tool_sync" =>
                  /\ Len(reply) = 2
                  /\ reply[1].role = "tool" /\ reply[1].content = tname
                  /\ reply[1].extra \in {"ok", "error"}
                  /\ reply[2].role = "assistant"
                  /\ CallsOfKind("summarize") \in
                        {<<>>, <<SummarizeCall(tname, reply[1].extra)>>}
                  /\ caught = "" =>
                        /\ reply[2] = Assistant("summary", 0)
                        /\ CallsOfKind("summarize") = <<SummarizeCall(tname, reply[1].extra)>>
                  /\ caught # "" => reply[2] = ErrorMessage(caught)
                  /\ (caught # "" /\ CallsOfKind("summarize") = <<>>) => caught = "json.dumps"

\* The tool returned an error payload: it was appended as the tool turn,
\* given to the summarize call, and the summary followed.
C24_Witness ==
    /\ FallbackTurnDone /\ ToolChosen
    /\ Reply(session_state.chat) = <<ToolMessage("date", "error"), Assistant("summary", 0)>>
    /\ model_calls = <<PlanCall, SummarizeCall("date", "error")>>

\* C25: nothing is retried: one turn makes at most one planning call, one
\* tool dispatch and one summarize call, on every path; a plan with
\* "final" dispatches nothing and makes no summarize call.
C25_NothingRetried ==
    /\ Len(CallsOfKind("plan")) <= 1
    /\ Len(dispatched) <= 1
    /\ Len(CallsOfKind("summarize")) <= 1
    /\ Len(model_calls) = Len(CallsOfKind("plan")) + Len(CallsOfKind("summarize"))
    /\ (FallbackTurnDone /\ br_plan(response).raised = ""
          /\ br_plan(response).plan.final # "") =>
          /\ dispatched = <<>> /\ model_calls = <<PlanCall>>

\* The tool call raised: it was dispatched once and the turn ended with
\* the error text.
C25_Witness ==
    /\ FallbackTurnDone /\ caught = "call_tool_sync"
    /\ Len(dispatched) = 1 /\ model_calls = <<PlanCall>>

\* The run handled a prompt, in either mode, and is over.
TurnDone == event = "prompt" /\ at = "waiting"

\* C26: whatever happens in a turn, in either mode, exactly one assistant
\* turn is appended after the user turn, as the last one; when an
\* exception was raised, by the agent, the planner, the tool dispatch or
\* the summarizer, or by a plan that is no mapping, its content is
\* "Error: " followed by the exception text; no exception leaves the
\* script.
C26_OneAssistantTurn ==
    TurnDone =>
        LET reply == Reply(session_state.chat)
        IN  /\ reply # <<>> /\ escaped = ""
            /\ Len(SelectSeq(reply, LAMBDA m : m.role = "assistant")) = 1
            /\ reply[Len(reply)].role = "assistant"
            /\ caught # "" => reply[Len(reply)] = ErrorMessage(caught)
            /\ caught = "" => reply[Len(reply)].content # "Error: "
            /\ (response # NoResponse /\ response.form = "raises") => caught = "invoke_model"
            /\ (response # NoResponse /\ response.kind = "not_an_object") => caught = "plan"

\* The planner answered valid JSON that is no object and the turn ended
\* with the one error message.
C26_Witness ==
    /\ TurnDone /\ response # NoResponse /\ response.kind = "not_an_object"
    /\ Reply(session_state.chat) = <<ErrorMessage("plan")>>

\* s is a prefix of t.
IsPrefix(s, t) == Len(s) <= Len(t) /\ SubSeq(t, 1, Len(s)) = s

C28_OnlyWhenConnected ==
    [][(\/ session_state.chat' # session_state.chat
        \/ model_calls' # <<>>
        \/ dispatched' # <<>>)
       => /\ at = "chat" /\ event = "prompt"
          /\ session_state.agent_mode # NONE /\ session_state.mcp_client # 0
          /\ session_state.agent_mode' # NONE /\ session_state.mcp_client' # 0]_vars

\* A tool was dispatched, with the agent connected.
C28_Witness ==
    /\ dispatched # <<>> /\ at = "waiting"
    /\ session_state.agent_mode # NONE /\ session_state.mcp_client # 0

====
